---- MODULE Spec2Model ----
(***************************************************************************)
(* gorilla-validator (package gv): the Validate middleware, the Validated  *)
(* accessor and the two process-wide settings ErrorHandler and Validator,  *)
(* as a state machine.  Source: src/validator.go.                          *)
(*                                                                         *)
(* Strings that the code parses are sequences of one-character strings, so *)
(* that strconv.ParseInt is computed digit by digit.  The schema types are *)
(* the fixtures of the repository's tests, restricted to the fields ID and *)
(* FollowIDs.                                                              *)
(***************************************************************************)
EXTENDS Integers, Sequences, FiniteSets, TLC

\* How often a key may be repeated in a query string, a form body or an XML
\* document, and the longest JSON array.
MaxRepeat == 2

(***************************************************************************)
(* Source tags (validator.go:36-44).                                       *)
(***************************************************************************)
Params == "Params"
Query == "Query"
Form == "Form"
JSON == "JSON"
XML == "XML"
Source == {Params, Query, Form, JSON, XML}
\* gv.Source("UNEXISTING_SOURCE"): Source is a string type, any text converts.
UnexistingSource == "UNEXISTING_SOURCE"

(***************************************************************************)
(* Texts on the wire.                                                      *)
(***************************************************************************)
T1 == <<"1">>
T12 == <<"1", "2">>
T0 == <<"0">>
Tabc == <<"a">>

IsDigit(c) == c \in {"0", "1", "2", "3", "4", "5", "6", "7", "8", "9"}

DigitValue(c) ==
  CASE c = "0" -> 0 [] c = "1" -> 1 [] c = "2" -> 2 [] c = "3" -> 3
    [] c = "4" -> 4 [] c = "5" -> 5 [] c = "6" -> 6 [] c = "7" -> 7
    [] c = "8" -> 8 [] c = "9" -> 9

RECURSIVE ParseUint(_, _)
ParseUint(s, acc) ==
  IF s = <<>> THEN acc
  ELSE ParseUint(Tail(s), acc * 10 + DigitValue(Head(s)))

\* A conversion that keeps the last digit only.
ParseIntLastDigit(s) ==
  IF s = <<>> \/ \E i \in 1..Len(s) : ~IsDigit(s[i])
  THEN [ok |-> FALSE, n |-> 0]
  ELSE [ok |-> TRUE, n |-> DigitValue(s[Len(s)])]

\* strconv.ParseInt(s, 10, 0) on unsigned decimal text: an error on the empty
\* string and on any character that is not a digit.
ParseInt(s) ==
  IF s = <<>> \/ \E i \in 1..Len(s) : ~IsDigit(s[i])
  THEN [ok |-> FALSE, n |-> 0]
  ELSE [ok |-> TRUE, n |-> ParseUint(s, 0)]

(***************************************************************************)
(* Schema types: the struct types the tests hand to Validate, with their   *)
(* field tags.  An absent tag is "".                                       *)
(***************************************************************************)
ParamsTestSchema ==
  << [name |-> "ID", type |-> "int", schema |-> "id", json |-> "", xml |-> "",
      validate |-> <<"required">>] >>

TestSchema ==
  << [name |-> "ID", type |-> "int", schema |-> "id", json |-> "id", xml |-> "id",
      validate |-> <<"required">>],
     [name |-> "FollowIDs", type |-> "[]int", schema |-> "follow_ids",
      json |-> "follow_ids", xml |-> "follow_ids", validate |-> <<>>] >>

CustomValidationSchema ==
  << [name |-> "ID", type |-> "int", schema |-> "id", json |-> "", xml |-> "",
      validate |-> <<"even">>] >>

FieldsOf(s) ==
  CASE s = "ParamsTestSchema" -> ParamsTestSchema
    [] s = "TestSchema" -> TestSchema
    [] s = "CustomValidationSchema" -> CustomValidationSchema

\* reflect.New(reflect.TypeOf(schema)): the zero value of the struct type.
\* Every struct is shown with both fields; a type without FollowIDs keeps it empty.
ZeroStruct == [ID |-> 0, FollowIDs |-> <<>>]

FieldValue(st, name) == IF name = "ID" THEN st.ID ELSE st.FollowIDs

SetField(st, name, v) ==
  IF name = "ID" THEN [st EXCEPT !.ID = v] ELSE [st EXCEPT !.FollowIDs = v]

NoErr == [origin |-> "none", kind |-> "none", key |-> "", others |-> 0]
MkErr(origin, kind, key) == [origin |-> origin, kind |-> kind, key |-> key, others |-> 0]

(***************************************************************************)
(* Canonical field maps (map[string][]string, url.Values): functions from  *)
(* a finite set of keys to sequences of texts.                             *)
(***************************************************************************)
EmptyValues == [k \in {} |-> <<>>]

\* A map that keeps one value per key: a later value replaces the earlier.
AddValueSet(m, k, v) ==
  IF k \in DOMAIN m THEN [m EXCEPT ![k] = <<v>>] ELSE m @@ (k :> <<v>>)

\* url.Values.Add / append(m[key], value)
AddValue(m, k, v) ==
  IF k \in DOMAIN m THEN [m EXCEPT ![k] = Append(@, v)] ELSE m @@ (k :> <<v>>)

\* One segment of a URL-encoded string: key=value, or a segment url.ParseQuery
\* rejects (an invalid semicolon separator, an invalid percent-escape).
Pair(k, v) == [k |-> k, v |-> v, bad |-> FALSE]
BadSegment == [k |-> ";", v |-> <<>>, bad |-> TRUE]

\* url.ParseQuery: every well-formed pair is added in order of appearance; a
\* malformed segment is skipped and the (first) error is reported beside the
\* values parsed.
RECURSIVE ParseQuery(_)
ParseQuery(segs) ==
  IF segs = <<>> THEN [values |-> EmptyValues, err |-> FALSE]
  ELSE LET n == Len(segs)
           front == ParseQuery(SubSeq(segs, 1, n - 1))
           last == segs[n]
       IN IF last.bad THEN [values |-> front.values, err |-> TRUE]
          ELSE [values |-> AddValue(front.values, last.k, last.v), err |-> front.err]

(***************************************************************************)
(* gorilla/schema: SchemaDecoder.Decode(dst, src) with the decoder's       *)
(* default options (unknown keys are errors, empty values are skipped).    *)
(***************************************************************************)
\* The index of the field of schema type s tagged schema:"k", or 0.
SchemaField(s, k) ==
  LET F == FieldsOf(s)
  IN IF \E i \in 1..Len(F) : F[i].schema = k
     THEN CHOOSE i \in 1..Len(F) : F[i].schema = k
     ELSE 0

\* A slice field: every non-empty value is converted, in order; one value that
\* does not convert fails the field.
RECURSIVE ConvertInts(_)
ConvertInts(values) ==
  IF values = <<>> THEN [ok |-> TRUE, items |-> <<>>]
  ELSE LET v == Head(values)
           p == ParseInt(v)
           rest == ConvertInts(Tail(values))
       IN IF v = <<>> THEN rest
          ELSE IF ~p.ok \/ ~rest.ok THEN [ok |-> FALSE, items |-> <<>>]
          ELSE [ok |-> TRUE, items |-> <<p.n>> \o rest.items]

\* A scalar field takes the last value given for its key; an empty value
\* leaves the field as it is.
SchemaDecodeKey(s, st, k, values) ==
  LET i == SchemaField(s, k)
      f == FieldsOf(s)[i]
      val == IF Len(values) > 0 THEN values[Len(values)] ELSE <<>>
      p == ParseInt(val)
      c == ConvertInts(values)
  IN IF i = 0 THEN [st |-> st, err |-> MkErr("decode", "schema: invalid path", k)]
     ELSE IF f.type = "int"
       THEN IF val = <<>> THEN [st |-> st, err |-> NoErr]
            ELSE IF p.ok THEN [st |-> SetField(st, f.name, p.n), err |-> NoErr]
            ELSE [st |-> st, err |-> MkErr("decode", "schema: error converting value", k)]
     ELSE IF c.ok THEN [st |-> SetField(st, f.name, c.items), err |-> NoErr]
          ELSE [st |-> st, err |-> MkErr("decode", "schema: error converting value", k)]

RECURSIVE SchemaDecodeKeys(_, _, _, _)
SchemaDecodeKeys(s, st, src, keys) ==
  IF keys = {} THEN [st |-> st, errs |-> {}]
  ELSE LET k == CHOOSE x \in keys : TRUE
           one == SchemaDecodeKey(s, st, k, src[k])
           rest == SchemaDecodeKeys(s, one.st, src, keys \ {k})
       IN [st |-> rest.st,
           errs |-> rest.errs \cup (IF one.err = NoErr THEN {} ELSE {one.err})]

\* Decode returns a MultiError with one entry per failing key; its Error() text
\* names one of them (Go's map order) and counts the others.
SchemaDecode(s, st, src) ==
  LET r == SchemaDecodeKeys(s, st, src, DOMAIN src)
  IN [st |-> r.st,
      errs |-> {[e EXCEPT !.others = Cardinality(r.errs) - 1] : e \in r.errs}]

(***************************************************************************)
(* Request bodies.  A body is a URL-encoded form, a JSON document or an    *)
(* XML document; shape tells how far it is well-formed:                    *)
(*   "ok"        one complete document (the root object or root element),  *)
(*   "empty"     no bytes at all,                                          *)
(*   "syntax"    malformed from its first token,                           *)
(*   "truncated" the document ends before its root is closed.              *)
(* trailing says that malformed bytes follow the complete document.        *)
(* JSON members and XML child elements are sequences of [k, v] in document *)
(* order; a JSON value v is [t, lit, items].                               *)
(***************************************************************************)
NoBody ==
  [fmt |-> "none", shape |-> "empty", segs |-> <<>>, members |-> <<>>, trailing |-> FALSE]

JNumber(lit) == [t |-> "number", lit |-> lit, items |-> <<>>]
JString(lit) == [t |-> "string", lit |-> lit, items |-> <<>>]
JNull == [t |-> "null", lit |-> <<>>, items |-> <<>>]
JArray(items) == [t |-> "array", lit |-> <<>>, items |-> items]

\* strings.ToLower on the names that occur: encoding/json matches an object key
\* to a field by its json tag name, or the field name when there is no tag,
\* ignoring case.
Lower(n) == CASE n = "ID" -> "id" [] n = "FollowIDs" -> "followids" [] OTHER -> n

JSONName(f) == IF f.json = "" THEN f.name ELSE f.json

JSONField(s, k) ==
  LET F == FieldsOf(s)
  IN IF \E i \in 1..Len(F) : Lower(JSONName(F[i])) = Lower(k)
     THEN CHOOSE i \in 1..Len(F) : Lower(JSONName(F[i])) = Lower(k)
     ELSE 0

\* An array into []int: the slice gets one element per item; an item that is
\* no integer leaves its element zero and is a type error.
RECURSIVE JSONInts(_)
JSONInts(items) ==
  IF items = <<>> THEN [ok |-> TRUE, items |-> <<>>]
  ELSE LET v == Head(items)
           p == IF v.t = "number" THEN ParseInt(v.lit) ELSE [ok |-> FALSE, n |-> 0]
           rest == JSONInts(Tail(items))
       IN [ok |-> p.ok /\ rest.ok, items |-> <<p.n>> \o rest.items]

\* One member of the root object.  A type mismatch is recorded and decoding goes
\* on; null leaves a scalar as it is and empties a slice; a key no field matches
\* is skipped.
JSONMember(s, st, m) ==
  LET i == JSONField(s, m.k)
      f == FieldsOf(s)[i]
      p == ParseInt(m.v.lit)
      a == JSONInts(m.v.items)
      bad == MkErr("decode", "json: cannot unmarshal", m.k)
  IN IF i = 0 THEN [st |-> st, err |-> NoErr]
     ELSE IF f.type = "int"
       THEN IF m.v.t = "null" THEN [st |-> st, err |-> NoErr]
            ELSE IF m.v.t = "number" /\ p.ok
              THEN [st |-> SetField(st, f.name, p.n), err |-> NoErr]
            ELSE [st |-> st, err |-> bad]
     ELSE IF m.v.t = "null" THEN [st |-> SetField(st, f.name, <<>>), err |-> NoErr]
          ELSE IF m.v.t = "array"
            THEN [st |-> SetField(st, f.name, a.items),
                  err |-> IF a.ok THEN NoErr ELSE bad]
          ELSE [st |-> st, err |-> bad]

RECURSIVE JSONMembers(_, _, _)
JSONMembers(s, st, members) ==
  IF members = <<>> THEN [st |-> st, err |-> NoErr]
  ELSE LET one == JSONMember(s, st, Head(members))
           rest == JSONMembers(s, one.st, Tail(members))
       IN [st |-> rest.st, err |-> IF one.err # NoErr THEN one.err ELSE rest.err]

\* json.NewDecoder(body).Decode(dst): reads ONE value from the stream, whole,
\* before it sets any field.  Bytes after that value are left in the decoder's
\* buffer and are never looked at.
JSONDecode(s, st, body) ==
  CASE body.shape = "empty" -> [st |-> st, err |-> MkErr("decode", "EOF", "")]
    [] body.shape = "syntax" ->
         [st |-> st, err |-> MkErr("decode", "json: invalid character", "")]
    [] body.shape = "truncated" ->
         [st |-> st, err |-> MkErr("decode", "unexpected EOF", "")]
    [] OTHER -> JSONMembers(s, st, body.members)

XMLName(f) == IF f.xml = "" THEN f.name ELSE f.xml

\* encoding/xml matches a child element to a field by exact name.
XMLField(s, k) ==
  LET F == FieldsOf(s)
  IN IF \E i \in 1..Len(F) : XMLName(F[i]) = k
     THEN CHOOSE i \in 1..Len(F) : XMLName(F[i]) = k
     ELSE 0

\* copyValue for an integer: empty character data is 0, anything else goes
\* through strconv.ParseInt.
XMLInt(text) == IF text = <<>> THEN [ok |-> TRUE, n |-> 0] ELSE ParseInt(text)

\* A decoder whose slice field keeps the latest occurrence only.
RECURSIVE XMLChildrenOverwrite(_, _, _)
XMLChildrenOverwrite(s, st, segs) ==
  IF segs = <<>> THEN [st |-> st, err |-> NoErr]
  ELSE LET c == Head(segs)
           i == XMLField(s, c.k)
           f == FieldsOf(s)[i]
           p == XMLInt(c.v)
       IN IF i = 0 THEN XMLChildrenOverwrite(s, st, Tail(segs))
          ELSE IF ~p.ok THEN [st |-> st, err |-> MkErr("decode", "strconv.ParseInt", c.k)]
          ELSE XMLChildrenOverwrite(s, SetField(st, f.name, IF f.type = "int" THEN p.n ELSE <<p.n>>),
                                    Tail(segs))

\* The children of the root element in document order.  A scalar field is set
\* by each occurrence, a slice field grows by one element per occurrence, an
\* element no field matches is skipped; the first value that does not convert
\* ends decoding with its error.
RECURSIVE XMLChildren(_, _, _)
XMLChildren(s, st, segs) ==
  IF segs = <<>> THEN [st |-> st, err |-> NoErr]
  ELSE LET c == Head(segs)
           i == XMLField(s, c.k)
           f == FieldsOf(s)[i]
           p == XMLInt(c.v)
       IN IF i = 0 THEN XMLChildren(s, st, Tail(segs))
          ELSE IF ~p.ok THEN [st |-> st, err |-> MkErr("decode", "strconv.ParseInt", c.k)]
          ELSE IF f.type = "int"
            THEN XMLChildren(s, SetField(st, f.name, p.n), Tail(segs))
          ELSE XMLChildren(s, SetField(st, f.name, Append(st.FollowIDs, p.n)), Tail(segs))

\* xml.NewDecoder(body).Decode(dst): reads ONE element, up to its end tag.
XMLDecode(s, st, body) ==
  LET r == XMLChildren(s, st, body.segs)
  IN CASE body.shape = "empty" -> [st |-> st, err |-> MkErr("decode", "EOF", "")]
       [] body.shape = "syntax" ->
            [st |-> st, err |-> MkErr("decode", "XML syntax error", "")]
       [] body.shape = "truncated" ->
            [st |-> r.st,
             err |-> IF r.err # NoErr THEN r.err
                     ELSE MkErr("decode", "XML syntax error: unexpected EOF", "")]
       [] OTHER -> r

(***************************************************************************)
(* go-playground/validator: an engine is validator.New() plus the custom   *)
(* rules registered on it.                                                 *)
(***************************************************************************)
BuiltinRules == {"required"}
\* validator.New()
NewValidator == "validator.New()"
\* customValidator of TestCustomValidator: validator.New() with
\* RegisterValidation("even", val%2 == 0)
customValidator == "customValidator"
Engines == {NewValidator, customValidator}

\* The rules an engine knows beside the built-in ones.
RegisteredRules(engine) == IF engine = customValidator THEN {"even"} ELSE {}

\* required: the field is not the zero value of its type; even: the rule the
\* tests register.
RuleHolds(tag, type, v) ==
  CASE tag = "required" -> IF type = "int" THEN v # 0 ELSE v # <<>>
    [] tag = "even" -> v % 2 = 0

\* The first rule of field f that st violates, or "".
FailedRule(f, st) ==
  LET v == FieldValue(st, f.name)
      fails(j) == ~RuleHolds(f.validate[j], f.type, v)
  IN IF \E j \in 1..Len(f.validate) : fails(j)
     THEN f.validate[CHOOSE j \in 1..Len(f.validate) :
                        fails(j) /\ \A h \in 1..(j - 1) : ~fails(h)]
     ELSE ""

\* An engine that runs no rule.
ValidatorStructNoRules(engine, s, st) == [panic |-> FALSE, err |-> NoErr]

\* engine.Struct(schemaValue): a tag that names no registered rule panics;
\* otherwise the error lists the fields whose rules fail, in field order.
ValidatorStruct(engine, s, st) ==
  LET F == FieldsOf(s)
      undefined == \E i \in 1..Len(F) : \E j \in 1..Len(F[i].validate) :
                      F[i].validate[j] \notin BuiltinRules \cup RegisteredRules(engine)
      failing == {i \in 1..Len(F) : F[i].validate # <<>> /\ FailedRule(F[i], st) # ""}
      first == CHOOSE i \in failing : \A h \in failing : i <= h
  IN IF undefined THEN [panic |-> TRUE, err |-> NoErr]
     ELSE IF failing = {} THEN [panic |-> FALSE, err |-> NoErr]
     ELSE [panic |-> FALSE,
           err |-> [origin |-> "validation", kind |-> FailedRule(F[first], st),
                    key |-> F[first].name, others |-> Cardinality(failing) - 1]]

(***************************************************************************)
(* Request contexts: context.WithValue chains, newest entry last.  A key   *)
(* is a Go value, equal to another only when type and text are both equal. *)
(* A value is a pointer [type, addr] to a struct the request allocated.    *)
(***************************************************************************)
\* The tag's text used as the key, without a type of its own.
plainStringKey(src) == [type |-> "string", text |-> src]

\* sourceKey(src): the conversion at validator.go:111 and :119.
sourceKey(src) == [type |-> "sourceKey", text |-> src]
\* Keys other packages can build from the same text.
StringKey(text) == [type |-> "string", text |-> text]
SourceTypedKey(src) == [type |-> "Source", text |-> src]

PtrTo(s) == [kind |-> "ptr", elem |-> s]
StructOf(s) == [kind |-> "struct", elem |-> s]
AnyType == [kind |-> "interface", elem |-> "any"]
StringType == [kind |-> "string", elem |-> ""]
NilValue == [type |-> [kind |-> "nil", elem |-> ""], addr |-> <<0, 0>>]
\* What unrelated code keeps in the context: a string, told apart by n.
ForeignValue(n) == [type |-> StringType, addr |-> <<0, n>>]

\* A lookup that returns the oldest entry stored under an equal key.
RECURSIVE ContextValueOldest(_, _)
ContextValueOldest(ctx, key) ==
  IF ctx = <<>> THEN NilValue
  ELSE IF Head(ctx).key = key THEN Head(ctx).val
  ELSE ContextValueOldest(Tail(ctx), key)

\* ctx.Value(key): the newest entry stored under an equal key, or nil.
RECURSIVE ContextValue(_, _)
ContextValue(ctx, key) ==
  IF ctx = <<>> THEN NilValue
  ELSE IF ctx[Len(ctx)].key = key THEN ctx[Len(ctx)].val
  ELSE ContextValue(SubSeq(ctx, 1, Len(ctx) - 1), key)

\* A context started afresh, context.WithValue(context.Background(), key, val).
WithValueBackground(ctx, key, val) == <<[key |-> key, val |-> val]>>

\* context.WithValue(ctx, key, val)
WithValue(ctx, key, val) == Append(ctx, [key |-> key, val |-> val])

\* The two-value form of the assertion, v, _ := x.(T): nil instead of a panic.
ValidatedCommaOk(ctx, T, src) ==
  LET v == ContextValue(ctx, sourceKey(src))
  IN IF v # NilValue /\ (T.kind = "interface" \/ v.type = T)
     THEN [panic |-> FALSE, val |-> v]
     ELSE [panic |-> FALSE, val |-> NilValue]

\* Validated[T](r, src): r.Context().Value(sourceKey(src)).(T).  The type
\* assertion panics on nil and on a value whose type is not T; an interface
\* type T takes any value that implements it, and every type implements any.
Validated(ctx, T, src) ==
  LET v == ContextValue(ctx, sourceKey(src))
  IN IF v # NilValue /\ (T.kind = "interface" \/ v.type = T)
     THEN [panic |-> FALSE, val |-> v]
     ELSE [panic |-> TRUE, val |-> NilValue]

(***************************************************************************)
(* Error policies: the functions the repository hands to ErrorHandler.     *)
(***************************************************************************)
StatusBadRequest == 400
StatusOK == 200

\* currentErrorHandler's initial value (validator.go:19-23)
defaultErrorHandler == "defaultErrorHandler"
\* the policy of TestErrorHandler: sets called, then answers like the default
testErrorHandler == "testErrorHandler"
\* the policy of the README: "Invalid request: " + err.Error()
readmeErrorHandler == "readmeErrorHandler"
ErrorHandlerFuncs == {defaultErrorHandler, testErrorHandler, readmeErrorHandler}

\* err.Error(): the description, as the words that make it up.
ErrorText(err) == <<err.kind, err.key, err.others>>

NoResponse == [status |-> 0, body |-> <<>>]

\* http.Error(w, text, code): the status line, then text as one line of body.
HTTPError(text, code) == [status |-> code, body |-> <<text>>]

\* A policy that answers with the status text instead of the description.
ErrorResponseStatusText(h, err) == HTTPError(<<"Bad Request">>, StatusBadRequest)

\* h(err).ServeHTTP(w, r)
ErrorResponse(h, err) ==
  IF h = readmeErrorHandler
  THEN HTTPError(<<"Invalid request: ">> \o ErrorText(err), StatusBadRequest)
  ELSE HTTPError(ErrorText(err), StatusBadRequest)

(***************************************************************************)
(* Routes: chains of middlewares built by Validate(schema, src), outermost *)
(* first, ahead of a terminal handler.                                     *)
(***************************************************************************)
\* Validate(schema, src): schema is a value of the schema's type, the
\* prototype; the closure keeps it and src.
ValidateWith(s, proto, src) == [schema |-> s, src |-> src, proto |-> proto]

\* The tests pass the zero value: Validate(TestSchema{}, src).
Middleware(s, src) == ValidateWith(s, [ID |-> 0, FollowIDs |-> <<>>], src)

\* A prototype with every field set: TestSchema{ID: 12, FollowIDs: []uint{1}}.
FilledPrototype == [ID |-> 12, FollowIDs |-> <<1>>]

\* The middlewares the tests build.
Middlewares ==
  { Middleware("ParamsTestSchema", Params),
    Middleware("CustomValidationSchema", Params),
    Middleware("TestSchema", Query),
    Middleware("TestSchema", Form),
    Middleware("TestSchema", JSON),
    Middleware("TestSchema", XML),
    ValidateWith("TestSchema", FilledPrototype, JSON),
    Middleware("ParamsTestSchema", UnexistingSource) }

\* Chains of two: the README's Params then JSON, the same tag twice, two
\* readers of the body (a Form middleware whose schema requires nothing
\* among them), and a wrong tag behind a good middleware.
Chains ==
  { << Middleware("ParamsTestSchema", Params), Middleware("TestSchema", JSON) >>,
    << Middleware("ParamsTestSchema", Params), Middleware("CustomValidationSchema", Params) >>,
    << Middleware("TestSchema", Query), Middleware("TestSchema", Query) >>,
    << Middleware("TestSchema", Query),
       ValidateWith("TestSchema", FilledPrototype, Query) >>,
    << Middleware("TestSchema", JSON), Middleware("TestSchema", JSON) >>,
    << Middleware("TestSchema", JSON), Middleware("TestSchema", XML) >>,
    << Middleware("TestSchema", Form), Middleware("TestSchema", Form) >>,
    << Middleware("TestSchema", Form), Middleware("TestSchema", JSON) >>,
    << Middleware("CustomValidationSchema", Form), Middleware("TestSchema", JSON) >>,
    << Middleware("TestSchema", XML), Middleware("TestSchema", XML) >>,
    << Middleware("ParamsTestSchema", Params),
       Middleware("ParamsTestSchema", UnexistingSource) >> }

Routes == {<<>>} \cup {<<m>> : m \in Middlewares} \cup Chains

Uses(route, src) == \E i \in 1..Len(route) : route[i].src = src

(***************************************************************************)
(* The requests a client can send.  A URL-encoded string, the children of  *)
(* an XML root and the members of a JSON object are built the same way: an *)
(* optional id (or an id given twice, a text that is no integer and then a *)
(* good one), then follow_ids up to MaxRepeat times, then possibly one     *)
(* more item: a key the schema does not have, a follow_ids value that is   *)
(* no integer, or (URL-encoded only) a malformed segment.                  *)
(***************************************************************************)
IDTexts == {T1, T12, Tabc}
\* The follow_ids a client sends, n of them: 1, 12, 1, ...
FollowTexts(n) == [k \in 1..n |-> IF k % 2 = 1 THEN T1 ELSE T12]

Elements ==
  { a \o b \o c :
      a \in {<<>>, <<Pair("id", Tabc), Pair("id", T1)>>}
              \cup {<<Pair("id", t)>> : t \in IDTexts},
      b \in {[k \in 1..n |-> Pair("follow_ids", FollowTexts(n)[k])] : n \in 0..MaxRepeat},
      c \in {<<>>, <<Pair("x", T1)>>, <<Pair("follow_ids", Tabc)>>} }

\* mux.Vars(r): what the route pattern matched.
VarsSet ==
  {EmptyValues} \cup {("id" :> t) : t \in IDTexts \cup {T0}}
    \cup {("id" :> T1) @@ ("x" :> T1)}

AllQueries == Elements \cup {e \o <<BadSegment>> : e \in Elements}
SmallQueries ==
  { <<>>, <<Pair("id", T1)>>, <<Pair("id", Tabc)>>, <<BadSegment>>,
    <<Pair("id", T12), Pair("follow_ids", T1)>> }

\* A form whose reader fails before the end.
UnreadableBody ==
  [fmt |-> "form", shape |-> "unreadable", segs |-> <<>>, members |-> <<>>, trailing |-> FALSE]
FormBody(segs) ==
  [fmt |-> "form", shape |-> "ok", segs |-> segs, members |-> <<>>, trailing |-> FALSE]
XMLBody(shape, segs, trailing) ==
  [fmt |-> "xml", shape |-> shape, segs |-> segs, members |-> <<>>, trailing |-> trailing]
JSONBody(shape, members, trailing) ==
  [fmt |-> "json", shape |-> shape, segs |-> <<>>, members |-> members, trailing |-> trailing]

Member(k, v) == [k |-> k, v |-> v]
\* Root objects: each key at most once.
JSONObjects ==
  { a \o b \o c :
      a \in {<<>>} \cup {<<Member("id", v)>> :
                           v \in {JNumber(T1), JNumber(T12), JNumber(T0), JString(Tabc), JNull}},
      b \in {<<>>} \cup {<<Member("follow_ids", JArray(i))>> :
                           i \in {[k \in 1..n |-> JNumber(FollowTexts(n)[k])] :
                                     n \in 0..MaxRepeat}
                                   \cup {<<JNumber(T1), JString(Tabc)>>}},
      c \in {<<>>, <<Member("x", JNumber(T1))>>} }

AllXML ==
  {XMLBody("ok", e, FALSE) : e \in Elements}
    \cup {XMLBody(sh, e, sh = "ok") :
            sh \in {"ok", "truncated"},
            e \in {<<>>, <<Pair("id", T12)>>, <<Pair("id", Tabc)>>}}
    \cup {XMLBody("syntax", <<>>, FALSE)}
SmallXML ==
  { XMLBody("ok", <<Pair("id", T12), Pair("follow_ids", T1)>>, FALSE),
    XMLBody("ok", <<Pair("id", Tabc)>>, FALSE) }
AllJSON ==
  {JSONBody("ok", m, FALSE) : m \in JSONObjects}
    \cup {JSONBody(sh, m, sh = "ok") :
            sh \in {"ok", "truncated"},
            m \in {<<>>, <<Member("id", JNumber(T12))>>, <<Member("id", JString(Tabc))>>}}
    \cup {JSONBody("syntax", <<>>, FALSE)}
SmallJSON ==
  { JSONBody("ok", <<Member("id", JNumber(T12)),
                     Member("follow_ids", JArray(<<JNumber(T1), JNumber(T12)>>))>>, FALSE),
    JSONBody("ok", <<Member("id", JNumber(T1))>>, TRUE),
    JSONBody("ok", <<Member("id", JString(Tabc))>>, FALSE) }

\* The Content-Type a client sets for body b on this route.
ContentTypeFor(route, b) ==
  IF b.fmt = "form" \/ (b.fmt = "none" /\ Uses(route, Form)) THEN "form" ELSE "other"

Input(route, v, q, m, b) ==
  [vars |-> v, query |-> q, method |-> m, ctype |-> ContentTypeFor(route, b), body |-> b]

\* Requests with a form: a POST with the form as its body, with and without a
\* URL query beside it, and a GET, whose body is never read.
FormInputs(route, vs, small) ==
  {Input(route, v, <<>>, "POST", FormBody(q)) :
     v \in vs, q \in (IF small THEN SmallQueries ELSE AllQueries)}
    \cup {Input(route, v, q, m, b) :
            v \in vs, q \in {<<Pair("id", T1)>>, <<BadSegment>>}, m \in {"GET", "POST"},
            b \in {NoBody, FormBody(<<>>), FormBody(<<Pair("id", T12)>>)}}
    \cup {Input(route, v, <<>>, m, NoBody) : v \in vs, m \in {"GET", "POST"}}
    \cup {Input(route, v, <<>>, "POST", UnreadableBody) : v \in vs}

InputsFor(route) ==
  LET small == Len(route) > 1
      vs == IF Uses(route, Params) THEN VarsSet ELSE {EmptyValues}
      qs == IF Uses(route, Query) THEN (IF small THEN SmallQueries ELSE AllQueries)
            ELSE {<<>>}
      bs == {NoBody}
              \cup (IF Uses(route, JSON) THEN (IF small THEN SmallJSON ELSE AllJSON) ELSE {})
              \cup (IF Uses(route, XML) THEN (IF small THEN SmallXML ELSE AllXML) ELSE {})
  IN {Input(route, v, q, "POST", b) : v \in vs, q \in qs, b \in bs}
       \cup (IF Uses(route, Form) THEN FormInputs(route, vs, small) ELSE {})

NoInput ==
  [vars |-> EmptyValues, query |-> <<>>, method |-> "GET", ctype |-> "other", body |-> NoBody]

\* What other code put into the request's context before the middleware runs:
\* values under the tag's text as a plain string and as a Source.
ForeignContext ==
  << [key |-> StringKey(Params), val |-> ForeignValue(1)],
     [key |-> SourceTypedKey(Params), val |-> ForeignValue(2)] >>

ReqIds == {1}

\* What the terminal handler may ask Validated for: a tag of the route or one
\* that is not, and for type a pointer to a schema type, a schema type itself,
\* or any.
HandlerAsks(route) ==
  LET tags == {route[i].src : i \in 1..Len(route)}
      schemas == {route[i].schema : i \in 1..Len(route)}
  IN { [T |-> T, src |-> t] :
         T \in {PtrTo(x) : x \in schemas \cup {"TestSchema"}}
                 \cup {StructOf(x) : x \in schemas} \cup {AnyType},
         t \in (tags \cap Source) \cup {IF Params \in tags THEN Query ELSE Params} }

(***************************************************************************)
(* State.                                                                  *)
(*   currentErrorHandler, currentValidator  the package variables          *)
(*   router     the chain registered on the route, with stale: Validator   *)
(*              was called after the chain's middlewares were built        *)
(*              and built: the last function handed to ErrorHandler when   *)
(*              they were built                                            *)
(*   installed  the last function handed to ErrorHandler, "none" before    *)
(*   engineSet  the last engine handed to Validator, "none" before         *)
(*   writer     the call of ErrorHandler or Validator that has begun and   *)
(*              has not stored yet: the variable it assigns and the value  *)
(*   req        per request: where its serving goroutine stands (pc, pos), *)
(*              the request itself (in, bodyRead, postForm, ctx), the      *)
(*              structs it allocated (objs), and what was done for it      *)
(***************************************************************************)
VARIABLES currentErrorHandler, currentValidator, router, installed, engineSet, writer, req

(***************************************************************************)
(* The state of one request in the normalize-then-decode variant of the    *)
(* middleware (src/unnamed/part_000), from the body to the field map:      *)
(*   decoder         the tokens xml.Decoder.Token() has still to return    *)
(*   currentElement  the local of the XML token loop                       *)
(*   result          the map[string]any the XML token loop fills           *)
(*   jsonData        the map[string]any json.Decode produced, or NoJSON    *)
(*                   for an XML request                                    *)
(*   data            the field map handed to the structural decoder, or    *)
(*                   NoData before convertToMapStringSlice returned        *)
(*   received        per element name, the character data the loop took    *)
(*                   for it, in document order                             *)
(***************************************************************************)
VARIABLES decoder, currentElement, result, jsonData, data, received

serveVars == <<currentErrorHandler, currentValidator, router, installed, engineSet, writer, req>>
normVars == <<decoder, currentElement, result, jsonData, data, received>>
vars == <<serveVars, normVars>>

\* A map that is not there yet, and a map that is.
NoJSON == [set |-> FALSE, map |-> EmptyValues]
NoData == [set |-> FALSE, map |-> EmptyValues]
MapOf(m) == [set |-> TRUE, map |-> m]

\* No request of the variant is being served.
NormIdle ==
  /\ decoder = <<>>
  /\ currentElement = ""
  /\ result = EmptyValues
  /\ jsonData = NoJSON
  /\ data = NoData
  /\ received = EmptyValues

ZeroCalls == [decoder |-> 0, validator |-> 0, policy |-> 0, handler |-> 0]

IdleRequest ==
  [pc |-> "Idle", pos |-> 0, in |-> NoInput, bodyRead |-> FALSE,
   postForm |-> [set |-> FALSE, values |-> EmptyValues],
   ctx |-> <<>>, objs |-> <<>>, err |-> NoErr, policy |-> "none",
   resp |-> NoResponse, calls |-> ZeroCalls,
   asked |-> [T |-> AnyType, src |-> ""], got |-> NilValue,
   handed |-> EmptyValues]

NoWriter == [var |-> "none", val |-> "none"]

\* The package variables as the package initialises them, no route, and the
\* serving goroutines ids idle.
ServeInit(ids) ==
  /\ currentErrorHandler = defaultErrorHandler
  /\ currentValidator = NewValidator
  /\ router = [chain |-> <<>>, stale |-> FALSE, built |-> "none"]
  /\ installed = "none"
  /\ engineSet = "none"
  /\ writer = NoWriter
  /\ req = [r \in ids |-> IdleRequest]

InitWith(ids) == ServeInit(ids) /\ NormIdle

Init == InitWith(ReqIds)

Idle == \A r \in DOMAIN req : req[r].pc = "Idle"

\* A setter whose argument never reaches the package variable.
ErrorHandlerDropped(h) ==
  /\ installed' = h
  /\ UNCHANGED <<currentErrorHandler, currentValidator, router, engineSet, writer, req, normVars>>

\* ErrorHandler(h), validator.go:26-28.
ErrorHandler(h) ==
  /\ currentErrorHandler' = h
  /\ installed' = h
  /\ UNCHANGED <<currentValidator, router, engineSet, writer, req, normVars>>

\* A setter that takes effect once: later calls keep the first engine.
ValidatorOnce(v) ==
  /\ currentValidator' = IF engineSet = "none" THEN v ELSE currentValidator
  /\ engineSet' = v
  /\ router' = [router EXCEPT !.stale = TRUE]
  /\ UNCHANGED <<currentErrorHandler, installed, writer, req, normVars>>

\* Validator(v), validator.go:52-54.
Validator(v) ==
  /\ currentValidator' = v
  /\ engineSet' = v
  /\ router' = [router EXCEPT !.stale = TRUE]
  /\ UNCHANGED <<currentErrorHandler, installed, writer, req, normVars>>

\* Validate(schema, src) for every middleware of the chain, and the route's
\* registration (validator.go:57-58): the closures keep schema and src only.
Handle(chain) ==
  /\ Idle
  /\ router' = [chain |-> chain, stale |-> FALSE, built |-> installed]
  /\ UNCHANGED <<currentErrorHandler, currentValidator, installed, engineSet, writer, req, normVars>>

\* One instance kept by the middleware and decoded into for every request:
\* what it holds is what a request in flight last decoded.
schemaValueShared ==
  IF \E r \in DOMAIN req : req[r].objs # <<>>
  THEN LET r == CHOOSE x \in DOMAIN req : req[x].objs # <<>>
       IN req[r].objs[Len(req[r].objs)]
  ELSE ZeroStruct

\* The prototype itself, decoded into as it was given to Validate: the
\* fields the input leaves out keep the prototype's values.
schemaValueFromPrototype ==
  LET r == CHOOSE x \in DOMAIN req : req[x].pc = "Pending"
  IN router.chain[req[r].pos].proto

\* schemaValue := reflect.New(reflect.TypeOf(schema)).Interface(),
\* validator.go:60: a new zero-valued instance on every request.
schemaValue == ZeroStruct

\* A body that every reader finds whole, as if it were restored after a read.
EffectiveBodyRestored(rq, fmt) ==
  IF rq.in.body.fmt = "none" THEN NoBody
  ELSE IF rq.in.body.fmt # fmt THEN [NoBody EXCEPT !.shape = "syntax"]
  ELSE rq.in.body

\* The body as the next reader finds it: nothing once it was read, and
\* malformed for a decoder of another format.
EffectiveBody(rq, fmt) ==
  IF rq.bodyRead \/ rq.in.body.fmt = "none" THEN NoBody
  ELSE IF rq.in.body.fmt # fmt THEN [NoBody EXCEPT !.shape = "syntax"]
  ELSE rq.in.body

\* The texts of the errors of r.ParseForm().
ReadError == "read error"
SeparatorError == "invalid semicolon separator"

\* The call `_ = r.ParseForm()`: the error is dropped.
ParseFormErrDropped(rq) ==
  LET reads == rq.in.method = "POST" /\ rq.in.ctype = "form"
      body == EffectiveBody(rq, "form")
      post == IF reads /\ body.shape # "unreadable" THEN ParseQuery(body.segs)
              ELSE [values |-> EmptyValues, err |-> FALSE]
  IN IF rq.postForm.set
     THEN [postForm |-> rq.postForm, err |-> FALSE, text |-> "", bodyRead |-> rq.bodyRead]
     ELSE [postForm |-> [set |-> TRUE, values |-> post.values],
           err |-> FALSE, text |-> "",
           bodyRead |-> rq.bodyRead \/ reads]

\* A decoder handed r.Form in place of r.PostForm: the values of the body,
\* then those of the URL query.
ParseFormMerged(rq) ==
  LET reads == rq.in.method = "POST" /\ rq.in.ctype = "form"
      body == EffectiveBody(rq, "form")
      unreadable == reads /\ body.shape = "unreadable"
      post == IF reads /\ ~unreadable THEN ParseQuery(body.segs)
              ELSE [values |-> EmptyValues, err |-> FALSE]
      query == ParseQuery(rq.in.query)
      both == ParseQuery((IF reads /\ ~unreadable THEN body.segs ELSE <<>>) \o rq.in.query)
  IN IF rq.postForm.set
     THEN [postForm |-> rq.postForm, err |-> FALSE, text |-> "", bodyRead |-> rq.bodyRead]
     ELSE [postForm |-> [set |-> TRUE, values |-> both.values],
           err |-> unreadable \/ post.err \/ query.err,
           text |-> IF unreadable THEN ReadError ELSE SeparatorError,
           bodyRead |-> rq.bodyRead \/ reads]

\* r.ParseForm() (net/http): a no-op once r.PostForm is set; otherwise PostForm
\* is parsed from the body of a POST with a form Content-Type, and the URL
\* query is parsed too; the first error is returned: the body could not be
\* read, or one of the two parses met a malformed segment.
ParseForm(rq) ==
  LET reads == rq.in.method = "POST" /\ rq.in.ctype = "form"
      body == EffectiveBody(rq, "form")
      unreadable == reads /\ body.shape = "unreadable"
      post == IF reads /\ ~unreadable THEN ParseQuery(body.segs)
              ELSE [values |-> EmptyValues, err |-> FALSE]
      query == ParseQuery(rq.in.query)
  IN IF rq.postForm.set
     THEN [postForm |-> rq.postForm, err |-> FALSE, text |-> "", bodyRead |-> rq.bodyRead]
     ELSE [postForm |-> [set |-> TRUE, values |-> post.values],
           err |-> unreadable \/ post.err \/ query.err,
           text |-> IF unreadable THEN ReadError ELSE SeparatorError,
           bodyRead |-> rq.bodyRead \/ reads]

\* The outcomes of SchemaDecoder.Decode(schemaValue, src): the decoded struct,
\* or one of the texts its MultiError can show.
SchemaOutcomes(s, src) ==
  LET d == SchemaDecode(s, schemaValue, src)
  IN IF d.errs = {} THEN {[st |-> d.st, err |-> NoErr]}
     ELSE {[st |-> d.st, err |-> e] : e \in d.errs}

\* A map in which the keys share one slice: every key shows all the values.
varsFixedShared(vs) ==
  LET keys == DOMAIN vs
  IN [k \in keys |-> [i \in 1..Cardinality(keys) |-> vs[k]]]

\* varsFixed, validator.go:65-68.
varsFixed(vs) == [k \in DOMAIN vs |-> <<vs[k]>>]

\* The switch over src, validator.go:62-100: the struct decoded into the new
\* schemaValue and the error, with what reading did to the request; ran tells
\* whether the structural decoder was called, handed the field map it was
\* given (none for a decoder that reads the body itself).
DecodeOutcomes(m, rq) ==
  LET pf == ParseForm(rq)
      same(o, map) == [st |-> o.st, err |-> o.err, bodyRead |-> rq.bodyRead,
                       postForm |-> rq.postForm, ran |-> TRUE, handed |-> map]
      read(o) == [st |-> o.st, err |-> o.err, bodyRead |-> TRUE,
                  postForm |-> rq.postForm, ran |-> TRUE, handed |-> EmptyValues]
  IN CASE m.src = Params ->
            {same(o, varsFixed(rq.in.vars)) :
               o \in SchemaOutcomes(m.schema, varsFixed(rq.in.vars))}
       [] m.src = Query ->
            {same(o, ParseQuery(rq.in.query).values) :
               o \in SchemaOutcomes(m.schema, ParseQuery(rq.in.query).values)}
       [] m.src = Form ->
            IF pf.err
            THEN {[st |-> schemaValue, err |-> MkErr("decode", pf.text, ""),
                   bodyRead |-> pf.bodyRead, postForm |-> pf.postForm, ran |-> FALSE,
                   handed |-> EmptyValues]}
            ELSE {[st |-> o.st, err |-> o.err, bodyRead |-> pf.bodyRead,
                   postForm |-> pf.postForm, ran |-> TRUE, handed |-> pf.postForm.values] :
                    o \in SchemaOutcomes(m.schema, pf.postForm.values)}
       [] m.src = JSON ->
            {read(JSONDecode(m.schema, schemaValue, EffectiveBody(rq, "json")))}
       [] m.src = XML ->
            {read(XMLDecode(m.schema, schemaValue, EffectiveBody(rq, "xml")))}

\* The instance published before it is known to be valid: the policy is
\* served with a request that carries it.
FailedAfterPublish(rq, pc, err) ==
  LET m == router.chain[rq.pos]
      self == CHOOSE r \in DOMAIN req : req[r].in = rq.in /\ req[r].pos = rq.pos
      val == [type |-> PtrTo(m.schema), addr |-> <<self, rq.pos>>]
  IN [rq EXCEPT !.pc = pc, !.err = err, !.policy = currentErrorHandler,
                !.ctx = WithValue(@, sourceKey(m.src), val),
                !.resp = ErrorResponse(currentErrorHandler, err),
                !.calls.policy = @ + 1]

\* A policy captured when the middleware was built, not read on the request.
FailedCaptured(rq, pc, err) ==
  LET h == IF router.built = "none" THEN defaultErrorHandler ELSE router.built
  IN [rq EXCEPT !.pc = pc, !.err = err, !.policy = h,
                !.resp = ErrorResponse(h, err), !.calls.policy = @ + 1]

\* The policy's call without the return behind it: the handler runs as well.
FailedNoReturn(rq, pc, err) ==
  [rq EXCEPT !.pc = pc, !.err = err, !.policy = currentErrorHandler,
             !.resp = ErrorResponse(currentErrorHandler, err),
             !.calls.policy = @ + 1, !.calls.handler = @ + 1]

\* currentErrorHandler(err).ServeHTTP(w, r); return
Failed(rq, pc, err) ==
  [rq EXCEPT !.pc = pc, !.err = err, !.policy = currentErrorHandler,
             !.resp = ErrorResponse(currentErrorHandler, err),
             !.calls.policy = @ + 1]

\* A request arrives at the route: http.Handler.ServeHTTP of the outermost
\* middleware, or of the terminal handler when the chain is empty.
ServeHTTP(r, input) ==
  /\ req[r].pc = "Idle"
  /\ input \in InputsFor(router.chain)
  /\ req' = [req EXCEPT ![r] =
       [IdleRequest EXCEPT !.in = input, !.ctx = ForeignContext,
          !.pc = IF router.chain = <<>> THEN "Handler" ELSE "Pending",
          !.pos = IF router.chain = <<>> THEN 0 ELSE 1,
          !.calls.handler = IF router.chain = <<>> THEN 1 ELSE 0]]
  /\ UNCHANGED <<currentErrorHandler, currentValidator, router, installed, engineSet, writer, normVars>>

\* An unknown tag treated as a failure of decoding.
UnknownSourceBadRequest(r) ==
  LET rq == req[r]
  IN /\ rq.pc = "Pending"
     /\ router.chain[rq.pos].src \notin Source
     /\ req' = [req EXCEPT ![r] =
          Failed([rq EXCEPT !.objs = Append(@, ZeroStruct)], "DecodeFailed",
                 MkErr("decode", "unknown source", router.chain[rq.pos].src))]
     /\ UNCHANGED <<currentErrorHandler, currentValidator, router, installed, engineSet, writer, normVars>>

\* validator.go:60 and :101-102: a tag outside the five panics.
UnknownSource(r) ==
  LET rq == req[r]
  IN /\ rq.pc = "Pending"
     /\ router.chain[rq.pos].src \notin Source
     /\ req' = [req EXCEPT ![r] = [rq EXCEPT !.pc = "Panicked", !.objs = Append(@, schemaValue)]]
     /\ UNCHANGED <<currentErrorHandler, currentValidator, router, installed, engineSet, writer, normVars>>

\* A decode error handed to the policy without the return: the pipeline goes
\* on to validation.
DecodeNoReturn(r) ==
  LET rq == req[r]
      m == router.chain[rq.pos]
  IN /\ rq.pc = "Pending"
     /\ m.src \in Source
     /\ \E o \in DecodeOutcomes(m, rq) :
          LET after == [rq EXCEPT !.objs = Append(@, o.st), !.bodyRead = o.bodyRead,
                                  !.postForm = o.postForm, !.handed = o.handed,
                                  !.calls.decoder = IF o.ran THEN @ + 1 ELSE @]
          IN req' = [req EXCEPT ![r] =
               IF o.err # NoErr
               THEN [Failed(after, "DecodeFailed", o.err) EXCEPT !.pc = "Decoded"]
               ELSE [after EXCEPT !.pc = "Decoded"]]
     /\ UNCHANGED <<currentErrorHandler, currentValidator, router, installed, engineSet, writer, normVars>>

\* validator.go:60-100: allocate schemaValue and decode into it.
Decode(r) ==
  LET rq == req[r]
      m == router.chain[rq.pos]
  IN /\ rq.pc = "Pending"
     /\ m.src \in Source
     /\ \E o \in DecodeOutcomes(m, rq) :
          LET after == [rq EXCEPT !.objs = Append(@, o.st), !.bodyRead = o.bodyRead,
                                  !.postForm = o.postForm, !.handed = o.handed,
                                  !.calls.decoder = IF o.ran THEN @ + 1 ELSE @]
          IN req' = [req EXCEPT ![r] =
               IF o.err # NoErr THEN Failed(after, "DecodeFailed", o.err)
               ELSE [after EXCEPT !.pc = "Decoded"]]
     /\ UNCHANGED <<currentErrorHandler, currentValidator, router, installed, engineSet, writer, normVars>>

\* Publishing the struct itself, reflect.New(...).Elem().Interface(), instead
\* of the pointer.
PublishedElem(r, rq, m) ==
  LET last == rq.pos = Len(router.chain)
  IN [rq EXCEPT !.ctx = WithValue(@, sourceKey(m.src),
                                  [type |-> StructOf(m.schema), addr |-> <<r, rq.pos>>]),
                !.pc = IF last THEN "Handler" ELSE "Pending",
                !.pos = IF last THEN @ ELSE @ + 1,
                !.calls.handler = IF last THEN @ + 1 ELSE @]

\* validator.go:111-112: publish schemaValue under sourceKey(src) and call the
\* next handler with the new request.
Published(r, rq, m) ==
  LET last == rq.pos = Len(router.chain)
  IN [rq EXCEPT !.ctx = WithValue(@, sourceKey(m.src),
                                  [type |-> PtrTo(m.schema), addr |-> <<r, rq.pos>>]),
                !.pc = IF last THEN "Handler" ELSE "Pending",
                !.pos = IF last THEN @ ELSE @ + 1,
                !.calls.handler = IF last THEN @ + 1 ELSE @]

\* validator.go:105-112: currentValidator.Struct(schemaValue), then the policy
\* or the publication.
Struct(r) ==
  LET rq == req[r]
      m == router.chain[rq.pos]
      v == ValidatorStruct(currentValidator, m.schema, rq.objs[rq.pos])
      after == [rq EXCEPT !.calls.validator = @ + 1]
  IN /\ rq.pc = "Decoded"
     /\ req' = [req EXCEPT ![r] =
          IF v.panic THEN [after EXCEPT !.pc = "Panicked"]
          ELSE IF v.err # NoErr THEN Failed(after, "ValidationFailed", v.err)
          ELSE Published(r, after, m)]
     /\ UNCHANGED <<currentErrorHandler, currentValidator, router, installed, engineSet, writer, normVars>>

\* The terminal handler of the tests: data := gv.Validated[T](r, src), then
\* w.WriteHeader(http.StatusOK).
Handler(r, T, src) ==
  LET rq == req[r]
      v == Validated(rq.ctx, T, src)
  IN /\ rq.pc = "Handler"
     /\ req' = [req EXCEPT ![r] =
          IF v.panic THEN [rq EXCEPT !.pc = "Panicked", !.asked = [T |-> T, src |-> src]]
          ELSE [rq EXCEPT !.pc = "Done", !.asked = [T |-> T, src |-> src], !.got = v.val,
                          !.resp = [status |-> StatusOK, body |-> <<>>]]]
     /\ UNCHANGED <<currentErrorHandler, currentValidator, router, installed, engineSet, writer, normVars>>

Terminal == {"Done", "DecodeFailed", "ValidationFailed", "Panicked"}

\* The request is over; its goroutine serves the next one.
Finish(r) ==
  /\ req[r].pc \in Terminal
  /\ req' = [req EXCEPT ![r] = IdleRequest]
  /\ UNCHANGED <<currentErrorHandler, currentValidator, router, installed, engineSet, writer, normVars>>

Next ==
  \/ \E h \in ErrorHandlerFuncs \ {defaultErrorHandler} : ErrorHandler(h)
  \/ \E v \in Engines : Validator(v)
  \/ \E c \in Routes : Handle(c)
  \/ \E r \in ReqIds : \E i \in InputsFor(router.chain) : ServeHTTP(r, i)
  \/ \E r \in ReqIds : UnknownSource(r)
  \/ \E r \in ReqIds : Decode(r)
  \/ \E r \in ReqIds : Struct(r)
  \/ \E r \in ReqIds : \E a \in HandlerAsks(router.chain) : Handler(r, a.T, a.src)
  \/ \E r \in ReqIds : Finish(r)

Spec == Init /\ [][Next]_vars

(***************************************************************************)
(* Two serving goroutines and a goroutine that reconfigures.  net/http     *)
(* serves each request on its own goroutine; ErrorHandler and Validator    *)
(* are plain assignments to package variables (validator.go:27, :53) and   *)
(* the middleware reads them plainly (validator.go:71, :105), with no      *)
(* mutex and no atomic: a call that has begun (writer) stores at any       *)
(* moment, whatever the requests are doing.  The routes and requests are a *)
(* few of those above.                                                     *)
(***************************************************************************)
ConcurrentReqIds == {1, 2}

ConcurrentRoutes ==
  { <<Middleware("TestSchema", Query)>>,
    <<Middleware("CustomValidationSchema", Params)>>,
    << Middleware("ParamsTestSchema", Params), Middleware("TestSchema", JSON) >> }

ConcurrentInputs(route) ==
  { i \in InputsFor(route) :
      /\ i.vars \in {EmptyValues, ("id" :> T1), ("id" :> T12)}
      /\ i.query \in {<<>>, <<Pair("id", T12), Pair("follow_ids", T1)>>, <<Pair("id", Tabc)>>}
      /\ i.body \in {NoBody,
                     JSONBody("ok", <<Member("id", JNumber(T12)),
                                      Member("follow_ids", JArray(<<JNumber(T1), JNumber(T12)>>))>>,
                              FALSE)} }

\* The handler asks for the value of the last middleware, as a pointer to its
\* schema type.
ConcurrentAsks(route) ==
  IF route = <<>> THEN {}
  ELSE { a \in HandlerAsks(route) :
           a = [T |-> PtrTo(route[Len(route)].schema), src |-> route[Len(route)].src] }

\* ErrorHandler(h) is called: validator.go:26.
ErrorHandlerCall(h) ==
  /\ writer = NoWriter
  /\ writer' = [var |-> "currentErrorHandler", val |-> h]
  /\ installed' = h
  /\ UNCHANGED <<currentErrorHandler, currentValidator, router, engineSet, req, normVars>>

\* Validator(v) is called: validator.go:52.
ValidatorCall(v) ==
  /\ writer = NoWriter
  /\ writer' = [var |-> "currentValidator", val |-> v]
  /\ engineSet' = v
  /\ UNCHANGED <<currentErrorHandler, currentValidator, router, installed, req, normVars>>

\* The assignment under a lock that requests hold from arrival to the end of
\* the middleware: it waits while a request is in a middleware.
StoreLocked ==
  /\ writer # NoWriter
  /\ \A r \in DOMAIN req : req[r].pc \notin {"Pending", "Decoded"}
  /\ currentErrorHandler' =
       IF writer.var = "currentErrorHandler" THEN writer.val ELSE currentErrorHandler
  /\ currentValidator' =
       IF writer.var = "currentValidator" THEN writer.val ELSE currentValidator
  /\ router' = [router EXCEPT !.stale = @ \/ writer.var = "currentValidator"]
  /\ writer' = NoWriter
  /\ UNCHANGED <<installed, engineSet, req, normVars>>

\* The assignment of the call that has begun: validator.go:27 or :53.
Store ==
  /\ writer # NoWriter
  /\ currentErrorHandler' =
       IF writer.var = "currentErrorHandler" THEN writer.val ELSE currentErrorHandler
  /\ currentValidator' =
       IF writer.var = "currentValidator" THEN writer.val ELSE currentValidator
  /\ router' = [router EXCEPT !.stale = @ \/ writer.var = "currentValidator"]
  /\ writer' = NoWriter
  /\ UNCHANGED <<installed, engineSet, req, normVars>>

ConcurrentInit == InitWith(ConcurrentReqIds)

ConcurrentNext ==
  \/ ErrorHandlerCall(testErrorHandler)
  \/ ValidatorCall(customValidator)
  \/ Store
  \/ \E c \in ConcurrentRoutes : Handle(c)
  \/ \E r \in ConcurrentReqIds : \E i \in ConcurrentInputs(router.chain) : ServeHTTP(r, i)
  \/ \E r \in ConcurrentReqIds : Decode(r)
  \/ \E r \in ConcurrentReqIds : Struct(r)
  \/ \E r \in ConcurrentReqIds : \E a \in ConcurrentAsks(router.chain) : Handler(r, a.T, a.src)
  \/ \E r \in ConcurrentReqIds : Finish(r)

SpecConcurrent == ConcurrentInit /\ [][ConcurrentNext]_vars

(***************************************************************************)
(* The normalize-then-decode variant (src/unnamed/part_000): the JSON and  *)
(* the XML body are turned into a field map, map[string][]string, that is  *)
(* handed to the structural decoder.  A value of a map[string]any is       *)
(* [kind, s, n, b, items]: a string s, a float64 of integer value n, a bool *)
(* b, nil, a []any of items, or a nested map.                              *)
(***************************************************************************)
\* The longest stream of XML tokens, apart from the test's document.
MaxTokens == 6

GoString(s) == [kind |-> "string", s |-> s, n |-> 0, b |-> FALSE, items |-> <<>>]
GoFloat(n) == [kind |-> "float64", s |-> <<>>, n |-> n, b |-> FALSE, items |-> <<>>]
GoBool(b) == [kind |-> "bool", s |-> <<>>, n |-> 0, b |-> b, items |-> <<>>]
GoNil == [kind |-> "nil", s |-> <<>>, n |-> 0, b |-> FALSE, items |-> <<>>]
GoSlice(items) == [kind |-> "[]any", s |-> <<>>, n |-> 0, b |-> FALSE, items |-> items]
GoMap == [kind |-> "map[string]any", s |-> <<>>, n |-> 0, b |-> FALSE, items |-> <<>>]

DigitChar(d) == CHOOSE c \in {"0", "1", "2", "3", "4", "5", "6", "7", "8", "9"} : DigitValue(c) = d

\* The decimal digits of n >= 0.
RECURSIVE FormatUint(_)
FormatUint(n) ==
  IF n < 10 THEN <<DigitChar(n)>>
  ELSE FormatUint(n \div 10) \o <<DigitChar(n % 10)>>

\* fmt.Sprintf("%v", v).  A float64 of integer value below 10^6 prints as its
\* decimal digits (from 10^6 on %v switches to the exponent form, which the
\* values of the model do not reach); an empty nested map prints as map[].
Sprintf(v) ==
  CASE v.kind = "string" -> v.s
    [] v.kind = "float64" -> IF v.n < 0 THEN <<"-">> \o FormatUint(0 - v.n) ELSE FormatUint(v.n)
    [] v.kind = "bool" -> IF v.b THEN <<"t", "r", "u", "e">> ELSE <<"f", "a", "l", "s", "e">>
    [] v.kind = "nil" -> <<"<", "n", "i", "l", ">">>
    [] v.kind = "[]any" -> <<"[", "]">>
    [] OTHER -> <<"m", "a", "p", "[", "]">>

\* A conversion that keeps the first element of an array only.
convertToMapStringSliceFirst(input) ==
  [key \in DOMAIN input |->
     LET v == input[key]
     IN CASE v.kind = "string" -> <<v.s>>
          [] v.kind = "[]any" -> IF v.items = <<>> THEN <<>> ELSE <<Sprintf(v.items[1])>>
          [] OTHER -> <<Sprintf(v)>>]

\* convertToMapStringSlice, part_000:155-176.  strSlice starts as a nil slice:
\* an empty array leaves it without any element.
convertToMapStringSlice(input) ==
  [key \in DOMAIN input |->
     LET v == input[key]
     IN CASE v.kind = "string" -> <<v.s>>
          [] v.kind = "float64" -> <<Sprintf(v)>>
          [] v.kind = "bool" -> <<Sprintf(v)>>
          [] v.kind = "[]any" -> [i \in 1..Len(v.items) |-> Sprintf(v.items[i])]
          [] OTHER -> <<Sprintf(v)>>]

\* json.Decode into a map[string]any: a number is a float64, an array a []any.
JTrue == [t |-> "true", lit |-> <<>>, items |-> <<>>]
JObject == [t |-> "object", lit |-> <<>>, items |-> <<>>]

RECURSIVE UnmarshalAny(_)
UnmarshalAny(v) ==
  CASE v.t = "number" -> GoFloat(ParseInt(v.lit).n)
    [] v.t = "string" -> GoString(v.lit)
    [] v.t = "true" -> GoBool(TRUE)
    [] v.t = "null" -> GoNil
    [] v.t = "array" -> GoSlice([i \in 1..Len(v.items) |-> UnmarshalAny(v.items[i])])
    [] OTHER -> GoMap

RECURSIVE UnmarshalMap(_)
UnmarshalMap(members) ==
  IF members = <<>> THEN EmptyValues
  ELSE LET n == Len(members)
           front == UnmarshalMap(SubSeq(members, 1, n - 1))
           last == members[n]
       IN IF last.k \in DOMAIN front
          THEN [front EXCEPT ![last.k] = UnmarshalAny(last.v)]
          ELSE front @@ (last.k :> UnmarshalAny(last.v))

\* The root objects of the JSON requests.
VariantObjects ==
  { a \o b \o c :
      a \in {<<>>} \cup {<<Member("id", v)>> :
                           v \in {JNumber(T1), JNumber(T12), JString(Tabc), JNull, JObject}},
      b \in {<<>>} \cup {<<Member("follow_ids", JArray(i))>> :
                           i \in {[k \in 1..n |-> JNumber(FollowTexts(n)[k])] :
                                     n \in 0..MaxRepeat}
                                   \cup {<<JNumber(T1), JString(Tabc)>>, <<JTrue, JNull>>}},
      c \in {<<>>, <<Member("verified", JTrue)>>} }

\* The tokens of xml.Decoder.Token().
StartElement(name) == [t |-> "StartElement", name |-> name, text |-> <<>>]
CharData(text) == [t |-> "CharData", name |-> "", text |-> text]
EndElement == [t |-> "EndElement", name |-> "", text |-> <<>>]

RECURSIVE Streams(_, _)
Streams(alphabet, n) ==
  IF n = 0 THEN {<<>>}
  ELSE LET shorter == Streams(alphabet, n - 1)
       IN shorter \cup {Append(st, tk) : st \in {x \in shorter : Len(x) = n - 1}, tk \in alphabet}

\* The document of TestValidateXMLOK, shortened: a root, an id and two
\* follow_ids.
TestDocument ==
  << StartElement("TestSchema"), StartElement("id"), CharData(T12), EndElement,
     StartElement("follow_ids"), CharData(T1), EndElement,
     StartElement("follow_ids"), CharData(T12), EndElement, EndElement >>

TokenStreams ==
  Streams({StartElement("id"), StartElement("follow_ids"), CharData(T1), CharData(T12)},
          MaxTokens)
    \cup {TestDocument}

\* The variant's request: a JSON body decoded into jsonData, or an XML body
\* whose tokens the loop is about to read.
NormInit ==
  /\ ServeInit(ReqIds)
  /\ currentElement = ""
  /\ result = EmptyValues
  /\ data = NoData
  /\ received = EmptyValues
  /\ \/ decoder \in TokenStreams /\ jsonData = NoJSON
     \/ decoder = <<>> /\ jsonData \in {MapOf(UnmarshalMap(m)) : m \in VariantObjects}

\* The second occurrence replaces the first instead of joining it.
ResultWithOverwrite(res, name, text) ==
  IF name \in DOMAIN res
  THEN IF res[name].kind = "string"
       THEN [res EXCEPT ![name] = GoSlice(<<GoString(text)>>)]
       ELSE [res EXCEPT ![name] = GoSlice(Append(@.items, GoString(text)))]
  ELSE res @@ (name :> GoString(text))

\* part_000:113-125: the map with the character data text stored for the
\* element name: alone, beside the one value held, or behind the values held.
ResultWith(res, name, text) ==
  IF name \in DOMAIN res
  THEN IF res[name].kind = "string"
       THEN [res EXCEPT ![name] = GoSlice(<<@, GoString(text)>>)]
       ELSE [res EXCEPT ![name] = GoSlice(Append(@.items, GoString(text)))]
  ELSE res @@ (name :> GoString(text))

Looping == jsonData = NoJSON /\ data = NoData /\ decoder # <<>>

\* case xml.StartElement, part_000:108-109.
TokenStartElement ==
  /\ Looping
  /\ Head(decoder).t = "StartElement"
  /\ currentElement' = Head(decoder).name
  /\ decoder' = Tail(decoder)
  /\ UNCHANGED <<result, jsonData, data, received, serveVars>>

\* case xml.CharData, part_000:110-127.
TokenCharData ==
  /\ Looping
  /\ Head(decoder).t = "CharData"
  /\ decoder' = Tail(decoder)
  /\ IF currentElement # ""
     THEN /\ result' = ResultWith(result, currentElement, Head(decoder).text)
          /\ received' = AddValue(received, currentElement, Head(decoder).text)
          /\ currentElement' = ""
     ELSE UNCHANGED <<result, received, currentElement>>
  /\ UNCHANGED <<jsonData, data, serveVars>>

\* Any other token: no case of the switch takes it.
TokenOther ==
  /\ Looping
  /\ Head(decoder).t \notin {"StartElement", "CharData"}
  /\ decoder' = Tail(decoder)
  /\ UNCHANGED <<currentElement, result, jsonData, data, received, serveVars>>

\* part_000:102-105 and :130: Token() returns an error, the loop breaks and
\* the map is converted.
TokenError ==
  /\ jsonData = NoJSON /\ data = NoData /\ decoder = <<>>
  /\ data' = MapOf(convertToMapStringSlice(result))
  /\ UNCHANGED <<decoder, currentElement, result, jsonData, received, serveVars>>

\* part_000:90: data := convertToMapStringSlice(jsonData).
ConvertJSON ==
  /\ jsonData # NoJSON /\ data = NoData
  /\ data' = MapOf(convertToMapStringSlice(jsonData.map))
  /\ UNCHANGED <<decoder, currentElement, result, jsonData, received, serveVars>>

NormNext ==
  \/ TokenStartElement
  \/ TokenCharData
  \/ TokenOther
  \/ TokenError
  \/ ConvertJSON

SpecNormalize == NormInit /\ [][NormNext]_vars

(***************************************************************************)
(* Properties.  What a client sends is read here independently of the      *)
(* decoders: an entry [k, v, t] per value supplied under key k, where t    *)
(* tells how it is written ("text" in a URL-encoded string, a route        *)
(* variable or an XML element; "number", "string" or "null" in JSON; "bad" *)
(* for a segment that is no key=value pair).                               *)
(***************************************************************************)
Digits == <<"0", "1", "2", "3", "4", "5", "6", "7", "8", "9">>

\* The decimal text of n, as a client writes it.
RECURSIVE Itoa(_)
Itoa(n) == IF n < 10 THEN <<Digits[n + 1]>> ELSE Itoa(n \div 10) \o <<Digits[(n % 10) + 1]>>

IsIntText(t) == \E n \in 0..99 : Itoa(n) = t
IntOf(t) == CHOOSE n \in 0..99 : Itoa(n) = t

Entry(k, v, t) == [k |-> k, v |-> v, t |-> t]

TextEntries(segs) ==
  [j \in 1..Len(segs) |-> Entry(segs[j].k, segs[j].v, IF segs[j].bad THEN "bad" ELSE "text")]

RECURSIVE JSONEntries(_)
JSONEntries(members) ==
  IF members = <<>> THEN <<>>
  ELSE LET m == Head(members)
       IN (IF m.v.t = "array"
           THEN [j \in 1..Len(m.v.items) |-> Entry(m.k, m.v.items[j].lit, m.v.items[j].t)]
           ELSE <<Entry(m.k, m.v.lit, m.v.t)>>)
          \o JSONEntries(Tail(members))

\* What the request supplies to a middleware reading source src.
Supplied(src, in) ==
  CASE src = Params ->
         (IF "id" \in DOMAIN in.vars THEN <<Entry("id", in.vars["id"], "text")>> ELSE <<>>)
           \o (IF "x" \in DOMAIN in.vars THEN <<Entry("x", in.vars["x"], "text")>> ELSE <<>>)
    [] src = Query -> TextEntries(in.query)
    [] src = Form ->
         IF in.method = "POST" /\ in.ctype = "form" /\ in.body.fmt = "form"
         THEN TextEntries(in.body.segs) ELSE <<>>
    [] src = JSON -> IF in.body.fmt = "json" THEN JSONEntries(in.body.members) ELSE <<>>
    [] src = XML -> IF in.body.fmt = "xml" THEN TextEntries(in.body.segs) ELSE <<>>
    [] OTHER -> <<>>

\* The tag that names field f in source src ("" when the type declares none).
TagFor(f, src) ==
  CASE src \in {Params, Query, Form} -> f.schema
    [] src = JSON -> f.json
    [] src = XML -> f.xml
    [] OTHER -> ""

\* The entries supplied for field f, in order.
EntriesFor(f, src, in) == SelectSeq(Supplied(src, in), LAMBDA e : e.k = TagFor(f, src))

IsIntEntry(e) == e.t \in {"text", "number"} /\ IsIntText(e.v)

\* The source document is complete and well-formed.
WellFormed(src, in) ==
  CASE src = Params -> TRUE
    [] src = Query -> \A j \in 1..Len(in.query) : ~in.query[j].bad
    [] src = Form ->
         /\ in.method = "POST" /\ in.ctype = "form" /\ in.body.fmt = "form"
         /\ in.body.shape = "ok"
         /\ \A j \in 1..Len(in.body.segs) : ~in.body.segs[j].bad
         /\ \A j \in 1..Len(in.query) : ~in.query[j].bad
    [] src = JSON -> in.body.fmt = "json" /\ in.body.shape = "ok" /\ ~in.body.trailing
    [] src = XML -> in.body.fmt = "xml" /\ in.body.shape = "ok" /\ ~in.body.trailing
    [] OTHER -> FALSE

\* The request body is still unread when the middleware at position i runs.
BodyUnread(chain, i) == \A j \in 1..(i - 1) : chain[j].src \notin {Form, JSON, XML}

\* The input of the middleware at position i is well-formed and satisfies the
\* schema: the document is well-formed, every value is supplied under a key
\* the schema declares for the source and is a decimal integer, a scalar
\* field is supplied at most once, and a required field is supplied and not
\* zero.  The schema's rules are built-in ones.
GoodInput(chain, i, in) ==
  LET m == chain[i]
      F == FieldsOf(m.schema)
      S == Supplied(m.src, in)
  IN /\ m.src \in Source
     /\ WellFormed(m.src, in)
     /\ m.src \in {JSON, XML} => BodyUnread(chain, i)
     /\ m.src = Form => \A j \in 1..(i - 1) : chain[j].src \notin {JSON, XML}
     /\ \A j \in 1..Len(S) :
          /\ IsIntEntry(S[j])
          /\ \E h \in 1..Len(F) : TagFor(F[h], m.src) = S[j].k /\ S[j].k # ""
     /\ \A h \in 1..Len(F) :
          LET es == EntriesFor(F[h], m.src, in)
          IN /\ \A j \in 1..Len(F[h].validate) : F[h].validate[j] \in BuiltinRules
             /\ F[h].type = "int" => Len(es) <= 1
             /\ (\E j \in 1..Len(F[h].validate) : F[h].validate[j] = "required")
                  => Len(es) >= 1 /\ \A j \in 1..Len(es) : IntOf(es[j].v) # 0

\* The instance a well-formed input describes: field by field the integers
\* the texts denote.
Expected(m, in) ==
  LET F == FieldsOf(m.schema)
      ints(name) ==
        IF \E h \in 1..Len(F) : F[h].name = name
        THEN LET es == EntriesFor(F[CHOOSE h \in 1..Len(F) : F[h].name = name], m.src, in)
             IN [j \in 1..Len(es) |-> IntOf(es[j].v)]
        ELSE <<>>
  IN [ID |-> IF ints("ID") = <<>> THEN 0 ELSE ints("ID")[1], FollowIDs |-> ints("FollowIDs")]

\* The middleware at position i has called the handler next to it.
Passed(rq, i) ==
  \/ rq.pos > i
  \/ rq.pos = i /\ (rq.pc \in {"Handler", "Done"} \/ (rq.pc = "Panicked" /\ rq.calls.handler = 1))

\* C1: a request whose input for a middleware is well-formed and satisfies the
\* schema's constraints passes through it, for each of the five tags: the
\* request does not end at that middleware, the instance it decoded holds the
\* values supplied and is published under the tag, and behind the last
\* middleware the handler is invoked exactly once, no error policy is invoked,
\* and Validated for the tag returns that instance.
C1_ValidInputPasses ==
  \A r \in ReqIds :
    LET rq == req[r]
        chain == router.chain
    IN \A i \in 1..Len(chain) :
         (rq.pc # "Idle" /\ GoodInput(chain, i, rq.in)) =>
           /\ (rq.pos = i /\ rq.pc \in Terminal) => Passed(rq, i)
           /\ Passed(rq, i) =>
                /\ rq.objs[i] = Expected(chain[i], rq.in)
                /\ \E j \in 1..Len(rq.ctx) :
                     /\ rq.ctx[j].key = sourceKey(chain[i].src)
                     /\ rq.ctx[j].val = [type |-> PtrTo(chain[i].schema), addr |-> <<r, i>>]
           /\ (i = Len(chain) /\ Passed(rq, i)) =>
                /\ rq.calls.handler = 1
                /\ rq.calls.policy = 0
                /\ (rq.pc \in Terminal
                      /\ rq.asked = [T |-> PtrTo(chain[i].schema), src |-> chain[i].src]) =>
                     /\ rq.pc = "Done"
                     /\ rq.got = [type |-> PtrTo(chain[i].schema), addr |-> <<r, i>>]
                     /\ rq.resp.status = StatusOK

\* A request with an id and MaxRepeat follow_ids in its JSON body was decoded,
\* validated, and its instance retrieved by the handler.
C1_Witness ==
  \E r \in ReqIds :
    /\ router.chain = <<Middleware("TestSchema", JSON)>>
    /\ GoodInput(router.chain, 1, req[r].in)
    /\ req[r].pc = "Done"
    /\ req[r].asked = [T |-> PtrTo("TestSchema"), src |-> JSON]
    /\ req[r].objs[1].ID = 12
    /\ Len(req[r].objs[1].FollowIDs) = MaxRepeat

\* The values of es that count for field f: all of them, except that a key
\* repeated in a URL-encoded source gives a scalar field its last value only.
Counting(f, src, es) ==
  IF f.type = "int" /\ src \in {Params, Query, Form} /\ es # <<>>
  THEN <<es[Len(es)]>> ELSE es

\* The input of the middleware at position i violates a declared constraint:
\* a required field has no value supplied, or a value supplied for a declared
\* field is no integer.
BadInput(chain, i, in) ==
  LET m == chain[i]
      F == FieldsOf(m.schema)
  IN /\ m.src \in Source
     /\ \E h \in 1..Len(F) :
          LET es == Counting(F[h], m.src, EntriesFor(F[h], m.src, in))
          IN /\ TagFor(F[h], m.src) # ""
             /\ \/ /\ \E j \in 1..Len(F[h].validate) : F[h].validate[j] = "required"
                   /\ \A j \in 1..Len(es) : es[j].t = "null"
                \/ \E j \in 1..Len(es) :
                     es[j].t \in {"text", "number", "string"} /\ ~IsIntText(es[j].v)

FailureStep(r) ==
  /\ req[r].pc \in {"Pending", "Decoded"}
  /\ req'[r].pc \in {"DecodeFailed", "ValidationFailed"}

\* The failures the decoder or the validator can return on that step.
FailuresAt(r) ==
  LET rq == req[r]
      m == router.chain[rq.pos]
  IN IF rq.pc = "Pending"
     THEN {o.err : o \in DecodeOutcomes(m, rq)} \ {NoErr}
     ELSE {ValidatorStruct(currentValidator, m.schema, rq.objs[rq.pos]).err} \ {NoErr}

\* C3: while no error policy has been installed with ErrorHandler, every
\* failure of a middleware, in decoding or in validation, is answered by the
\* default policy with status 400 and a body that is the description of the
\* failure the decoder or the validator returned.
C3_DefaultPolicy ==
  [][\A r \in ReqIds :
       (FailureStep(r) /\ installed = "none") =>
         /\ req'[r].policy = defaultErrorHandler
         /\ req'[r].calls.policy = req[r].calls.policy + 1
         /\ req'[r].calls.handler = req[r].calls.handler
         /\ \E e \in FailuresAt(r) :
              /\ req'[r].err = e
              /\ req'[r].resp = [status |-> 400, body |-> <<ErrorText(e)>>]]_vars

\* A JSON body that is no JSON was answered by the default policy.
C3_Witness ==
  \E r \in ReqIds :
    /\ installed = "none"
    /\ req[r].pc = "DecodeFailed"
    /\ router.chain[req[r].pos].src = JSON
    /\ req[r].policy = defaultErrorHandler
    /\ req[r].resp = [status |-> 400, body |-> <<ErrorText(req[r].err)>>]

\* C4: a middleware built with a tag that is none of Params, Query, Form,
\* JSON, XML panics on every request it serves, before any decoding: the step
\* it takes ends in a panic, with no call of the decoder, the validator, the
\* error policy or the handler, nothing published and no response written.
C4_UnknownSourcePanics ==
  [][\A r \in ReqIds :
       (/\ req[r].pc = "Pending"
        /\ router.chain[req[r].pos].src \notin {Params, Query, Form, JSON, XML}
        /\ req'[r] # req[r]) =>
         /\ req'[r].pc = "Panicked"
         /\ req'[r].calls = req[r].calls
         /\ req'[r].resp = req[r].resp
         /\ req'[r].resp.status = 0
         /\ req'[r].ctx = req[r].ctx]_vars

\* The route of TestWrongSourcePanics panicked without any call.
C4_Witness ==
  \E r \in ReqIds :
    /\ router.chain = <<Middleware("ParamsTestSchema", UnexistingSource)>>
    /\ req[r].pc = "Panicked"
    /\ req[r].calls = ZeroCalls
    /\ req[r].resp = NoResponse

\* Some middleware of the route publishes under tag src.
PublishedUnder(chain, src) == \E i \in 1..Len(chain) : chain[i].src = src

\* The handler of request r has called Validated and the call is over.
Retrieved(rq) == rq.calls.handler = 1 /\ rq.pc \in {"Done", "Panicked"}

\* C5: Validated(r, tag) on a request for which no middleware has published
\* under that tag panics, whatever type is asked for; it returns no value.
C5_UnpublishedPanics ==
  \A r \in ReqIds :
    (Retrieved(req[r]) /\ ~PublishedUnder(router.chain, req[r].asked.src)) =>
      /\ req[r].pc = "Panicked"
      /\ req[r].got = NilValue
      /\ req[r].resp.status # StatusOK

\* Behind a JSON middleware the handler asked for the Params value as any.
C5_Witness ==
  \E r \in ReqIds :
    /\ router.chain = <<Middleware("TestSchema", JSON)>>
    /\ req[r].pc = "Panicked"
    /\ req[r].calls.handler = 1
    /\ req[r].asked = [T |-> AnyType, src |-> Params]

\* The middleware whose entry ctx.Value finds under tag src: the last of the
\* route with that tag.
Publisher(chain, src) ==
  CHOOSE i \in 1..Len(chain) :
    chain[i].src = src /\ \A j \in (i + 1)..Len(chain) : chain[j].src # src

Pointer(r, chain, i) == [type |-> PtrTo(chain[i].schema), addr |-> <<r, i>>]

\* C6 as stated: the value published under a tag is a pointer to the decoded
\* instance of schema type S; Validated[*S] returns it and Validated[T] for
\* ANY other T panics.
C6_AnyOtherTypePanics ==
  \A r \in ReqIds :
    LET rq == req[r]
        i == Publisher(router.chain, rq.asked.src)
    IN (Retrieved(rq) /\ PublishedUnder(router.chain, rq.asked.src)) =>
         /\ rq.asked.T = PtrTo(router.chain[i].schema) =>
              rq.pc = "Done" /\ rq.got = Pointer(r, router.chain, i)
         /\ rq.asked.T # PtrTo(router.chain[i].schema) => rq.pc = "Panicked"

\* C6, amended: the value published under a tag is a pointer to the decoded
\* instance of schema type S; Validated[*S] returns it, and so does
\* Validated[T] for an interface type T that *S implements, such as any; for
\* every other T, the plain value type S included, Validated[T] panics.
C6_PointerOrPanic ==
  \A r \in ReqIds :
    LET rq == req[r]
        i == Publisher(router.chain, rq.asked.src)
        returns == rq.asked.T = PtrTo(router.chain[i].schema) \/ rq.asked.T = AnyType
    IN (Retrieved(rq) /\ PublishedUnder(router.chain, rq.asked.src)) =>
         /\ returns =>
              /\ rq.pc = "Done"
              /\ rq.got = Pointer(r, router.chain, i)
         /\ ~returns => rq.pc = "Panicked" /\ rq.got = NilValue

\* Validated[any] returned the pointer the Query middleware published.
C6_Witness ==
  \E r \in ReqIds :
    /\ router.chain = <<Middleware("TestSchema", Query)>>
    /\ req[r].pc = "Done"
    /\ req[r].asked = [T |-> AnyType, src |-> Query]
    /\ req[r].got = [type |-> PtrTo("TestSchema"), addr |-> <<r, 1>>]

\* C7: when ErrorHandler(h) was called before a request fails in decoding or
\* in validation, h is the policy invoked for the failure, once, and the
\* default policy is not; the response is the one h writes.
C7_InstalledPolicyHandles ==
  [][\A r \in ReqIds :
       (FailureStep(r) /\ installed # "none") =>
         /\ req'[r].policy = installed
         /\ req'[r].policy # defaultErrorHandler
         /\ req'[r].calls.policy = req[r].calls.policy + 1
         /\ req'[r].calls.handler = req[r].calls.handler
         /\ installed = readmeErrorHandler =>
              Head(Head(req'[r].resp.body)) = "Invalid request: "
         /\ installed = testErrorHandler =>
              req'[r].resp.body = <<ErrorText(req'[r].err)>>]_vars

\* A request without the required id failed under the README's policy.
C7_Witness ==
  \E r \in ReqIds :
    /\ installed = readmeErrorHandler
    /\ req[r].pc = "ValidationFailed"
    /\ req[r].policy = readmeErrorHandler
    /\ Head(Head(req[r].resp.body)) = "Invalid request: "

\* Engine v knows every rule of schema s.
Knows(v, s) ==
  \A h \in 1..Len(FieldsOf(s)) : \A j \in 1..Len(FieldsOf(s)[h].validate) :
    FieldsOf(s)[h].validate[j] \in {"required"} \cup RegisteredRules(v)

\* Every rule of schema s holds of instance st: required is "not zero", even
\* is "divisible by two".
Holds(s, st) ==
  \A h \in 1..Len(FieldsOf(s)) : \A j \in 1..Len(FieldsOf(s)[h].validate) :
    LET tag == FieldsOf(s)[h].validate[j]
    IN /\ tag = "required" => st.ID # 0
       /\ tag = "even" => st.ID % 2 = 0

\* C8: once Validator(v) has been called, every validation by any middleware,
\* those built before the call included, is decided by the engine of the last
\* call: an instance it accepts goes on to the next handler, an instance it
\* rejects goes to the error policy (and a rule it does not know panics).
C8_LastEngineDecides ==
  [][\A r \in ReqIds :
       (req[r].pc = "Decoded" /\ req'[r].pc # "Decoded" /\ engineSet # "none") =>
         LET rq == req[r]
             s == router.chain[rq.pos].schema
             st == rq.objs[rq.pos]
             last == rq.pos = Len(router.chain)
         IN /\ (Knows(engineSet, s) /\ Holds(s, st)) =>
                 /\ req'[r].pc = IF last THEN "Handler" ELSE "Pending"
                 /\ req'[r].calls.handler = rq.calls.handler + (IF last THEN 1 ELSE 0)
                 /\ req'[r].calls.policy = rq.calls.policy
            /\ (Knows(engineSet, s) /\ ~Holds(s, st)) =>
                 /\ req'[r].pc = "ValidationFailed"
                 /\ req'[r].calls.policy = rq.calls.policy + 1
                 /\ req'[r].calls.handler = rq.calls.handler
            /\ ~Knows(engineSet, s) => req'[r].pc = "Panicked"
            /\ req'[r].calls.validator = rq.calls.validator + 1]_vars

\* An odd id was rejected by the custom engine's rule on a route that was
\* built before Validator was called.
C8_Witness ==
  \E r \in ReqIds :
    /\ router.stale
    /\ engineSet = customValidator
    /\ router.chain = <<Middleware("CustomValidationSchema", Params)>>
    /\ req[r].pc = "ValidationFailed"
    /\ req[r].err.kind = "even"
    /\ req[r].objs[1].ID = 1

\* The request is through both middlewares of a chain of two different tags.
BothSucceeded(rq) ==
  /\ Len(router.chain) = 2
  /\ router.chain[1].src # router.chain[2].src
  /\ rq.pos = 2
  /\ rq.calls.handler = 1

\* Publishing leaves what ctx.Value finds under every other tag as it was.
OtherEntriesKept(r) ==
  (req[r].pc = "Decoded" /\ req'[r].ctx # req[r].ctx) =>
    \A t \in Source \ {router.chain[req[r].pos].src} :
      ContextValue(req'[r].ctx, sourceKey(t)) = ContextValue(req[r].ctx, sourceKey(t))

\* C9: when two middlewares with different tags t1, t2 are chained and both
\* succeed, the handler can retrieve both: Validated(r, t1) returns the
\* instance the t1 middleware decoded and Validated(r, t2) the one the t2
\* middleware decoded; publishing under t2 leaves the entry for t1 unchanged.
C9_BothRetrievable ==
  /\ [](\A r \in ReqIds : \A i \in 1..2 :
          (/\ BothSucceeded(req[r])
           /\ req[r].pc \in {"Done", "Panicked"}
           /\ req[r].asked = [T |-> PtrTo(router.chain[i].schema), src |-> router.chain[i].src]) =>
            /\ req[r].pc = "Done"
            /\ req[r].got = Pointer(r, router.chain, i))
  /\ [][\A r \in ReqIds : OtherEntriesKept(r)]_vars

\* Behind Params and JSON the handler got the instance of the Params
\* middleware, with both entries in the context.
C9_Witness ==
  \E r \in ReqIds :
    /\ router.chain = << Middleware("ParamsTestSchema", Params), Middleware("TestSchema", JSON) >>
    /\ req[r].pc = "Done"
    /\ req[r].asked = [T |-> PtrTo("ParamsTestSchema"), src |-> Params]
    /\ req[r].got = Pointer(r, router.chain, 1)
    /\ ContextValue(req[r].ctx, sourceKey(JSON)) = Pointer(r, router.chain, 2)

\* A value of this package: a pointer to a schema instance.
IsPublished(v) == v.type.kind = "ptr"

\* C10: what other code stored in the request context under the tag's text as
\* a plain string, or under the Source value itself, is never replaced by a
\* middleware's publication and never returned by Validated, and no
\* middleware's entry is found under such a key.
C10_PrivateKeys ==
  \A r \in ReqIds :
    req[r].pc # "Idle" =>
      /\ ContextValue(req[r].ctx, StringKey(Params)) = ForeignValue(1)
      /\ ContextValue(req[r].ctx, SourceTypedKey(Params)) = ForeignValue(2)
      /\ req[r].got \notin {ForeignValue(1), ForeignValue(2)}
      /\ \A t \in Source :
           /\ ~IsPublished(ContextValue(req[r].ctx, StringKey(t)))
           /\ ~IsPublished(ContextValue(req[r].ctx, SourceTypedKey(t)))

\* The Params middleware has published, the handler has retrieved its
\* instance as any, and the foreign values are where they were.
C10_Witness ==
  \E r \in ReqIds :
    /\ router.chain = <<Middleware("ParamsTestSchema", Params)>>
    /\ req[r].pc = "Done"
    /\ req[r].asked = [T |-> AnyType, src |-> Params]
    /\ IsPublished(req[r].got)
    /\ ContextValue(req[r].ctx, StringKey(Params)) = ForeignValue(1)
    /\ ContextValue(req[r].ctx, SourceTypedKey(Params)) = ForeignValue(2)

\* The middleware at position i has decoded without an error.
DecodedAt(rq, i) ==
  /\ Len(rq.objs) >= i
  /\ ~(rq.pos = i /\ rq.pc \in {"Pending", "DecodeFailed"})

\* The integers supplied under key k to a middleware reading src, in order of
\* appearance.
IntsUnder(k, src, in) ==
  LET es == SelectSeq(Supplied(src, in), LAMBDA e : e.k = k)
  IN [j \in 1..Len(es) |-> IntOf(es[j].v)]

\* C11: for Query and Form, a key that occurs several times in the input is
\* decoded into the sequence field with all of its values, in order of
\* appearance.
C11_RepeatedKeyKept ==
  \A r \in ReqIds : \A i \in 1..Len(router.chain) :
    LET rq == req[r]
        m == router.chain[i]
    IN (rq.pc # "Idle" /\ m.src \in {Query, Form} /\ m.schema = "TestSchema" /\ DecodedAt(rq, i)) =>
         rq.objs[i].FollowIDs = IntsUnder("follow_ids", m.src, rq.in)

\* A form with follow_ids given MaxRepeat times, the values differing, was
\* decoded.
C11_Witness ==
  \E r \in ReqIds :
    /\ router.chain = <<Middleware("TestSchema", Form)>>
    /\ DecodedAt(req[r], 1)
    /\ Len(req[r].objs[1].FollowIDs) = MaxRepeat
    /\ MaxRepeat >= 2 => req[r].objs[1].FollowIDs[1] # req[r].objs[1].FollowIDs[2]

\* C12: for XML, an element that occurs n >= 1 times as a child of the root is
\* decoded into a sequence of exactly n values in document order.
C12_RepeatedElementKept ==
  \A r \in ReqIds : \A i \in 1..Len(router.chain) :
    LET rq == req[r]
        m == router.chain[i]
    IN (rq.pc # "Idle" /\ m.src = XML /\ m.schema = "TestSchema" /\ DecodedAt(rq, i)) =>
         /\ rq.objs[i].FollowIDs = IntsUnder("follow_ids", XML, rq.in)
         /\ Len(rq.objs[i].FollowIDs) =
              Cardinality({j \in 1..Len(rq.in.body.segs) : rq.in.body.segs[j].k = "follow_ids"})

\* An XML document with MaxRepeat follow_ids elements was decoded.
C12_Witness ==
  \E r \in ReqIds :
    /\ router.chain = <<Middleware("TestSchema", XML)>>
    /\ req[r].in.body.fmt = "xml"
    /\ DecodedAt(req[r], 1)
    /\ Len(req[r].objs[1].FollowIDs) = MaxRepeat
    /\ MaxRepeat >= 2 => req[r].objs[1].FollowIDs[1] # req[r].objs[1].FollowIDs[2]

\* Every tag of the route is one of the five.
Recognized(chain) == \A i \in 1..Len(chain) : chain[i].src \in Source

\* The request failed in r.ParseForm(), before the structural decoder.
ParseFailed(rq) == rq.err.origin = "decode" /\ rq.err.kind \in {ReadError, SeparatorError}

\* The structural decodings made when the request is at its position: one
\* for every middleware reached, but the one whose ParseForm failed.
Decodings(rq) == IF ParseFailed(rq) THEN rq.pos - 1 ELSE rq.pos

\* The three ways a middleware ends, with what was called for the request: in
\* the failure states the policy once and the handler never, in Published the
\* handler once and the policy never, after as many decodings and validations
\* as middlewares were passed.
EndsDecodeFailed(rq) ==
  /\ rq.pc = "DecodeFailed"
  /\ rq.calls = [decoder |-> Decodings(rq), validator |-> rq.pos - 1, policy |-> 1, handler |-> 0]
  /\ rq.err.origin = "decode"

EndsValidationFailed(rq) ==
  /\ rq.pc = "ValidationFailed"
  /\ rq.calls = [decoder |-> rq.pos, validator |-> rq.pos, policy |-> 1, handler |-> 0]
  /\ rq.err.origin = "validation"

EndsPublished(rq) ==
  /\ rq.pc \in {"Done", "Panicked"}
  /\ rq.calls = [decoder |-> rq.pos, validator |-> rq.pos, policy |-> 0, handler |-> 1]
  /\ rq.pos = Len(router.chain)
  /\ rq.err = NoErr

\* The validation engine panicked: nothing was called behind it.
EndsValidatorPanic(rq) ==
  /\ rq.pc = "Panicked"
  /\ rq.calls = [decoder |-> rq.pos, validator |-> rq.pos, policy |-> 0, handler |-> 0]

\* C13 as stated: every request served with recognized tags ends in exactly
\* one of DecodeFailed, ValidationFailed and Published.
C13_ThreeTerminalStates ==
  \A r \in ReqIds :
    (req[r].pc \in Terminal /\ router.chain # <<>> /\ Recognized(router.chain)) =>
      \/ EndsDecodeFailed(req[r])
      \/ EndsValidationFailed(req[r])
      \/ EndsPublished(req[r])

\* C13, amended: every request served with recognized tags ends in exactly one
\* of DecodeFailed, ValidationFailed and Published, with the calls above, or
\* in a panic of the validation engine; the engine panics only on a schema
\* that names a rule the current engine does not know, so a request whose
\* schemas name rules the engine knows ends in one of the three.
C13_ThreeStatesOrEnginePanic ==
  /\ [](\A r \in ReqIds :
          (req[r].pc \in Terminal /\ router.chain # <<>> /\ Recognized(router.chain)) =>
            \/ EndsDecodeFailed(req[r])
            \/ EndsValidationFailed(req[r])
            \/ EndsPublished(req[r])
            \/ EndsValidatorPanic(req[r]))
  /\ [][\A r \in ReqIds :
          (req[r].pc = "Decoded" /\ req'[r].pc = "Panicked") =>
            ~Knows(currentValidator, router.chain[req[r].pos].schema)]_vars

\* Behind Params and JSON the request ended Published, after two decodings
\* and two validations.
C13_Witness ==
  \E r \in ReqIds :
    /\ router.chain = << Middleware("ParamsTestSchema", Params), Middleware("TestSchema", JSON) >>
    /\ req[r].pc = "Done"
    /\ EndsPublished(req[r])
    /\ req[r].calls.decoder = 2

\* The decoder returned an error for request r (at its current middleware).
DecodeErrored(rq) == rq.err.origin = "decode"

\* C14: when decoding fails for a request, the pipeline stops there: the
\* validation engine is not invoked on the instance, nothing is published for
\* it, the handler is not invoked, and the request does nothing further.
C14_DecodeFailureStops ==
  /\ [](\A r \in ReqIds :
          DecodeErrored(req[r]) =>
            /\ req[r].pc = "DecodeFailed"
            /\ req[r].calls.validator = req[r].pos - 1
            /\ req[r].calls.decoder = Decodings(req[r])
            /\ req[r].calls.handler = 0
            /\ \A j \in 1..Len(req[r].ctx) : req[r].ctx[j].val.addr # <<r, req[r].pos>>
            /\ Len(req[r].ctx) = Len(ForeignContext) + req[r].pos - 1)
  /\ [][\A r \in ReqIds :
          DecodeErrored(req[r]) => (req'[r] = req[r] \/ req'[r] = IdleRequest)]_vars

\* Behind a Params middleware that published, the JSON middleware failed to
\* decode: one validation was made, the first middleware's.
C14_Witness ==
  \E r \in ReqIds :
    /\ router.chain = << Middleware("ParamsTestSchema", Params), Middleware("TestSchema", JSON) >>
    /\ req[r].pc = "DecodeFailed"
    /\ req[r].pos = 2
    /\ req[r].calls.validator = 1
    /\ Len(req[r].ctx) = Len(ForeignContext) + 1

\* The zero value of a field.
ZeroOf(type) == IF type = "int" THEN 0 ELSE <<>>

\* Instance i of request rq holds the zero value in every field the request's
\* input does not supply.
AbsentIsZero(rq, i) ==
  LET m == router.chain[i]
      F == FieldsOf(m.schema)
  IN /\ \A h \in 1..Len(F) :
          EntriesFor(F[h], m.src, rq.in) = <<>> =>
            FieldValue(rq.objs[i], F[h].name) = ZeroOf(F[h].type)
     /\ (\A h \in 1..Len(F) : F[h].name # "FollowIDs") => rq.objs[i].FollowIDs = <<>>

\* The pointers published in the context of request rq.
PublishedIn(rq) ==
  {rq.ctx[j].val.addr : j \in {x \in 1..Len(rq.ctx) : IsPublished(rq.ctx[x].val)}}

\* C15: of two requests served by the same middleware, one after the other
\* or interleaved, each decodes into its own new zero-valued instance: the
\* instance published for one is never the instance of the other, and a
\* field absent from a request's input is zero in its instance, never a value
\* decoded for the other request.
C15_OwnInstance ==
  /\ \A r \in DOMAIN req : \A i \in 1..Len(req[r].objs) : AbsentIsZero(req[r], i)
  /\ \A r \in DOMAIN req : \A a \in PublishedIn(req[r]) : a[1] = r
  /\ \A r1, r2 \in DOMAIN req :
       r1 # r2 => PublishedIn(req[r1]) \cap PublishedIn(req[r2]) = {}

\* Two requests are in flight on the Query route: one supplied id and
\* follow_ids and has published, the other supplied nothing and was decoded
\* to the zero instance.
C15_Witness ==
  /\ router.chain = <<Middleware("TestSchema", Query)>>
  /\ \E r1, r2 \in DOMAIN req :
       /\ r1 # r2
       /\ req[r1].pc = "Handler"
       /\ req[r1].objs = <<[ID |-> 12, FollowIDs |-> <<1>>]>>
       /\ PublishedIn(req[r1]) = {<<r1, 1>>}
       /\ req[r2].pc = "ValidationFailed"
       /\ req[r2].in.query = <<>>
       /\ req[r2].objs = <<[ID |-> 0, FollowIDs |-> <<>>]>>

\* The policy in force: the argument of the last call of ErrorHandler, the
\* default one when there was no call.
LastPolicy == IF installed = "none" THEN defaultErrorHandler ELSE installed

\* C16: after any sequence of calls ErrorHandler(h1), ..., ErrorHandler(hn), a
\* failure on any route, a route built before some or all of the calls
\* included, is handled by hn, once, and by no other policy: the policy does
\* not depend on the route or on when its middlewares were built.
C16_LastPolicyEverywhere ==
  [][\A r \in ReqIds :
       FailureStep(r) =>
         /\ req'[r].policy = LastPolicy
         /\ req'[r].calls.policy = req[r].calls.policy + 1
         /\ req[r].calls.policy = 0
         /\ req'[r].resp.status = StatusBadRequest
         /\ (Head(Head(req'[r].resp.body)) = "Invalid request: ")
              <=> (LastPolicy = readmeErrorHandler)]_vars

\* On a route built while the test's policy was installed, a failure was
\* handled by the README's policy, installed afterwards.
C16_Witness ==
  \E r \in ReqIds :
    /\ router.built = testErrorHandler
    /\ installed = readmeErrorHandler
    /\ req[r].pc \in {"DecodeFailed", "ValidationFailed"}
    /\ req[r].policy = readmeErrorHandler
    /\ req[r].calls.policy = 1
    /\ Head(Head(req[r].resp.body)) = "Invalid request: "

\* The step of request r that reads the package variable var: the engine is
\* read by Struct, the policy by the step that fails, Decode or Struct.
Reads(r, var) ==
  \/ var = "currentValidator" /\ req[r].pc = "Decoded"
  \/ var = "currentErrorHandler" /\ req[r].pc \in {"Pending", "Decoded"}

\* C17: replacing the policy or the engine while a request is in flight is a
\* data race: when a replacement has begun and a request is at the step that
\* reads the same variable, the assignment and the read are both enabled, so
\* nothing orders the one before the other.
C17_WriteAndReadUnordered ==
  \A r \in ConcurrentReqIds :
    (writer # NoWriter /\ Reads(r, writer.var)) =>
      /\ ENABLED Store
      /\ req[r].pc = "Pending" => ENABLED Decode(r)
      /\ req[r].pc = "Decoded" => ENABLED Struct(r)

\* Validator(customValidator) has begun and has not assigned yet, while one
\* request is about to call currentValidator.Struct and the other has been
\* validated by the engine that is being replaced.
C17_Witness ==
  /\ writer = [var |-> "currentValidator", val |-> customValidator]
  /\ currentValidator = NewValidator
  /\ req[1].pc = "Decoded"
  /\ req[2].pc = "Panicked"
  /\ req[2].calls.validator = 1
  /\ router.chain[1].schema = "CustomValidationSchema"

\* Request r is at a middleware of source src, about to decode.
DecodingFrom(r, src) ==
  /\ req[r].pc = "Pending"
  /\ router.chain[req[r].pos].src = src

\* The middleware's step ended in a decode failure: the policy was invoked and
\* the handler was not.
FailsDecoding(r) ==
  /\ req'[r].pc = "DecodeFailed"
  /\ req'[r].err.origin = "decode"
  /\ req'[r].calls.policy = req[r].calls.policy + 1
  /\ req'[r].calls.handler = 0

\* C18: for the Query source, a request whose URL query string is malformed
\* (an invalid percent-escape, a semicolon separator) fails with a decode
\* failure: the policy is invoked and the handler is not.
C18_MalformedQueryFails ==
  [][\A r \in ReqIds :
       (DecodingFrom(r, Query) /\ ~WellFormed(Query, req[r].in) /\ req'[r] # req[r])
         => FailsDecoding(r)]_vars

\* Parsing the form data of request rq fails: the form was not parsed before
\* and the URL query has a malformed segment, or the body is one ParseForm
\* reads and it cannot be read or has a malformed segment.
MalformedForm(rq) ==
  /\ ~rq.postForm.set
  /\ \/ \E j \in 1..Len(rq.in.query) : rq.in.query[j].bad
     \/ /\ rq.in.method = "POST" /\ rq.in.ctype = "form"
        /\ ~rq.bodyRead /\ rq.in.body.fmt = "form"
        /\ \/ rq.in.body.shape = "unreadable"
           \/ \E j \in 1..Len(rq.in.body.segs) : rq.in.body.segs[j].bad

\* C19: for the Form source, when parsing the request's form data fails (a
\* malformed encoding, an unreadable body, a malformed URL query on the same
\* request), the policy is invoked with the parse error, the structural
\* decoder and the validation engine are not invoked for the middleware, and
\* the handler is not invoked.
C19_FormParseFailureStops ==
  /\ [][\A r \in ReqIds :
          (DecodingFrom(r, Form) /\ MalformedForm(req[r]) /\ req'[r] # req[r]) =>
            /\ FailsDecoding(r)
            /\ ParseFailed(req'[r])
            /\ req'[r].resp = ErrorResponse(req'[r].policy, req'[r].err)
            /\ req'[r].calls.decoder = req[r].calls.decoder
            /\ req'[r].calls.validator = req[r].calls.validator
            /\ req'[r].objs[req[r].pos] = ZeroStruct]_vars
  /\ [](\A r \in ReqIds :
          ParseFailed(req[r]) =>
            /\ req[r].pc = "DecodeFailed"
            /\ req[r].calls = [decoder |-> req[r].pos - 1, validator |-> req[r].pos - 1,
                               policy |-> 1, handler |-> 0])

\* The request of TestValidateFormErrorInvalid2, GET /test?;& on a Form route:
\* the policy answered, and nothing was decoded or validated.
C19_Witness ==
  \E r \in ReqIds :
    /\ router.chain = << Middleware("TestSchema", Form) >>
    /\ req[r].in.method = "GET"
    /\ req[r].in.query = <<BadSegment>>
    /\ req[r].pc = "DecodeFailed"
    /\ req[r].err = MkErr("decode", SeparatorError, "")
    /\ req[r].calls = [decoder |-> 0, validator |-> 0, policy |-> 1, handler |-> 0]
    /\ req[r].resp.status = StatusBadRequest

\* C20: for the JSON and XML sources, a request body that is not a well-formed
\* document (a truncated document, a well-formed document followed by further
\* malformed content, ...) fails with a decode failure: the policy is invoked
\* and the handler is not.
C20_MalformedDocumentFails ==
  [][\A r \in ReqIds : \A src \in {JSON, XML} :
       (DecodingFrom(r, src) /\ ~WellFormed(src, req[r].in) /\ req'[r] # req[r])
         => FailsDecoding(r)]_vars

\* C21: for the Params source the field map handed to the structural decoder
\* has exactly the keys the route matcher supplied, each with the one matched
\* value; normalization never fails, so the structural decoder is always
\* called, and a schema key the matcher did not supply fails nothing before
\* validation: a decode failure names a key that was supplied.
C21_ParamsNormalized ==
  [][\A r \in ReqIds :
       (DecodingFrom(r, Params) /\ req'[r] # req[r]) =>
         LET matched == req[r].in.vars
             map == req'[r].handed
         IN /\ DOMAIN map = DOMAIN matched
            /\ \A k \in DOMAIN map : Len(map[k]) = 1 /\ map[k][1] = matched[k]
            /\ req'[r].calls.decoder = req[r].calls.decoder + 1
            /\ req'[r].pc \in {"Decoded", "DecodeFailed"}
            /\ req'[r].pc = "DecodeFailed" =>
                 /\ ~ParseFailed(req'[r])
                 /\ req'[r].err.key \in DOMAIN matched
            /\ matched = EmptyValues => req'[r].pc = "Decoded"]_vars

\* The matcher supplied id and x: the map has the two keys, one value each;
\* and a request for which it supplied nothing was decoded and then rejected
\* by validation.
C21_Witness ==
  \E r \in ReqIds :
    /\ router.chain = << Middleware("ParamsTestSchema", Params) >>
    /\ req[r].pc = "DecodeFailed"
    /\ req[r].in.vars = ("id" :> T1) @@ ("x" :> T1)
    /\ req[r].handed = ("id" :> <<T1>>) @@ ("x" :> <<T1>>)
    /\ req[r].err.key = "x"

\* C22: in the normalize-then-decode variant, whatever start-element and
\* character-data tokens the XML loop has processed, an element name that
\* received n >= 1 values holds exactly those values in document order: one
\* as a scalar, two or more as a sequence; and the field map the loop's result
\* is converted to has, for every such name, exactly those n values in order
\* and no other key.
C22_RepeatedElementsCollected ==
  ~jsonData.set =>
    /\ DOMAIN result = DOMAIN received
    /\ \A name \in DOMAIN received :
         LET got == received[name]
             n == Len(got)
         IN /\ n >= 1
            /\ n = 1 => result[name] = GoString(got[1])
            /\ n >= 2 => result[name] = GoSlice([i \in 1..n |-> GoString(got[i])])
    /\ data.set =>
         /\ DOMAIN data.map = DOMAIN received
         /\ \A name \in DOMAIN received :
              /\ Len(data.map[name]) = Len(received[name])
              /\ \A i \in 1..Len(received[name]) : data.map[name][i] = received[name][i]

\* follow_ids came three times: the field map has the three values in order.
C22_Witness ==
  /\ ~jsonData.set
  /\ data.set
  /\ received = ("follow_ids" :> <<T1, T12, T1>>)
  /\ data.map = ("follow_ids" :> <<T1, T12, T1>>)

\* The string form of a leaf, written out for the leaves of the requests.
StringForm(v) ==
  CASE v = GoFloat(1) -> T1
    [] v = GoFloat(12) -> T12
    [] v = GoString(Tabc) -> Tabc
    [] v = GoBool(TRUE) -> <<"t", "r", "u", "e">>
    [] v = GoNil -> <<"<", "n", "i", "l", ">">>
    [] OTHER -> <<"m", "a", "p", "[", "]">>

\* C23: in the normalize-then-decode variant the field map that
\* convertToMapStringSlice produces from a decoded JSON object maps every key
\* to a sequence of one or more strings: a scalar, boolean or numeric leaf to
\* the one-element sequence of its string form, an array leaf to the sequence
\* of its stringified elements, of the array's length and in its order; no key
\* maps to an empty sequence.
C23_OneOrMoreStrings ==
  (jsonData.set /\ data.set) =>
    /\ DOMAIN data.map = DOMAIN jsonData.map
    /\ \A key \in DOMAIN jsonData.map :
         LET v == jsonData.map[key]
             out == data.map[key]
         IN /\ Len(out) >= 1
            /\ v.kind # "[]any" => out = <<StringForm(v)>>
            /\ v.kind = "[]any" =>
                 /\ Len(out) = Len(v.items)
                 /\ \A i \in 1..Len(out) : out[i] = StringForm(v.items[i])

\* C23, amended: every key of the decoded JSON object is a key of the field
\* map; a scalar, boolean or numeric leaf gives the one-element sequence of
\* its string form, an array leaf the sequence of its stringified elements,
\* of the array's length and in its order; a key maps to an empty sequence
\* exactly when its leaf is an empty array.
C23_StringsPerLeaf ==
  (jsonData.set /\ data.set) =>
    /\ DOMAIN data.map = DOMAIN jsonData.map
    /\ \A key \in DOMAIN jsonData.map :
         LET v == jsonData.map[key]
             out == data.map[key]
         IN /\ (Len(out) = 0) <=> (v = GoSlice(<<>>))
            /\ v.kind # "[]any" => out = <<StringForm(v)>>
            /\ v.kind = "[]any" =>
                 /\ Len(out) = Len(v.items)
                 /\ \A i \in 1..Len(out) : out[i] = StringForm(v.items[i])

\* An object with a number, an array of two numbers and a boolean was
\* converted.
C23_Witness ==
  /\ jsonData.set
  /\ jsonData.map = ("id" :> GoFloat(12)) @@ ("follow_ids" :> GoSlice(<<GoFloat(1), GoFloat(12)>>))
                      @@ ("verified" :> GoBool(TRUE))
  /\ data.set
  /\ data.map = ("id" :> <<T12>>) @@ ("follow_ids" :> <<T1, T12>>)
                  @@ ("verified" :> << <<"t", "r", "u", "e">> >>)

\* The value Validated finds under src in context ctx was published by the
\* middleware at position pos of request r.
FindsOwn(ctx, r, pos, src) ==
  LET v == Validated(ctx, AnyType, src)
  IN ~v.panic /\ v.val.addr = <<r, pos>>

\* C24: on a decode or validation failure the policy's response producer is
\* served with the request as the middleware received it: the middleware
\* added no entry to its context, so Validated(r, tag) there finds no value
\* published by this middleware; and the response is what the policy wrote,
\* the middleware wrote nothing before it and nothing after it.
C24_FailureLeavesRequest ==
  /\ [][\A r \in ReqIds :
          FailureStep(r) =>
            /\ req'[r].ctx = req[r].ctx
            /\ req'[r].pos = req[r].pos
            /\ \A j \in 1..Len(req'[r].ctx) : req'[r].ctx[j].val.addr # <<r, req[r].pos>>
            /\ ~FindsOwn(req'[r].ctx, r, req[r].pos, router.chain[req[r].pos].src)
            /\ req[r].resp = NoResponse
            /\ req'[r].resp = ErrorResponse(req'[r].policy, req'[r].err)]_vars
  /\ [](\A r \in ReqIds :
          req[r].pc \in {"DecodeFailed", "ValidationFailed"} =>
            /\ req[r].resp = ErrorResponse(req[r].policy, req[r].err)
            /\ ~FindsOwn(req[r].ctx, r, req[r].pos, router.chain[req[r].pos].src))

\* The second of two Params middlewares failed in validation: Validated(r,
\* Params) in the error response finds the instance of the first.
C24_Witness ==
  \E r \in ReqIds :
    /\ router.chain = << Middleware("ParamsTestSchema", Params),
                         Middleware("CustomValidationSchema", Params) >>
    /\ req[r].pc = "ValidationFailed"
    /\ req[r].pos = 2
    /\ Validated(req[r].ctx, PtrTo("ParamsTestSchema"), Params).val.addr = <<r, 1>>
    /\ Len(req[r].ctx) = Len(ForeignContext) + 1
    /\ req[r].resp.status = StatusBadRequest

\* The route has two middlewares of the same tag and request r passed both.
SameTagTwice(r) ==
  /\ Len(router.chain) = 2
  /\ router.chain[1].src = router.chain[2].src
  /\ req[r].pos = 2
  /\ req[r].calls.handler = 1

\* C25: when two middlewares of the same tag are chained and both succeed,
\* Validated(r, tag) in the handler returns the instance published by the
\* inner middleware, the one that ran last, whatever type is asked for, or
\* panics; the instance published by the outer one is not returned.
C25_InnerShadowsOuter ==
  \A r \in ReqIds :
    SameTagTwice(r) =>
      LET tag == router.chain[2].src
          outer == PtrTo(router.chain[1].schema)
          inner == PtrTo(router.chain[2].schema)
      IN /\ \A T \in {outer, inner, AnyType} :
              LET v == Validated(req[r].ctx, T, tag)
              IN /\ ~v.panic => v.val = [type |-> inner, addr |-> <<r, 2>>]
                 /\ v.panic <=> (T = outer /\ outer # inner)
         /\ \E j \in 1..Len(req[r].ctx) :
              req[r].ctx[j] = [key |-> sourceKey(tag), val |-> [type |-> outer, addr |-> <<r, 1>>]]
         /\ (req[r].pc = "Done" /\ req[r].asked.src = tag) => req[r].got.addr = <<r, 2>>

\* Behind two Query middlewares of the same schema the handler asked for the
\* Query value and got the inner middleware's instance.
C25_Witness ==
  \E r \in ReqIds :
    /\ router.chain = << Middleware("TestSchema", Query), Middleware("TestSchema", Query) >>
    /\ req[r].pc = "Done"
    /\ req[r].asked = [T |-> PtrTo("TestSchema"), src |-> Query]
    /\ req[r].got = [type |-> PtrTo("TestSchema"), addr |-> <<r, 2>>]

BodySources == {Form, JSON, XML}

\* Request r is at the second of two body-sourced middlewares, a JSON or XML
\* one.
SecondBodyReader(r) ==
  /\ Len(router.chain) = 2
  /\ router.chain[1].src \in BodySources
  /\ router.chain[2].src \in {JSON, XML}
  /\ req[r].pos = 2

\* The second middleware ends in a decode failure on the consumed body, and
\* the handler is not invoked.
EndsOnConsumedBody(rq) ==
  /\ rq.pc \in {"Pending", "DecodeFailed"}
  /\ rq.calls.handler = 0
  /\ rq.pc = "DecodeFailed" => rq.err = MkErr("decode", "EOF", "")

\* The first middleware of the route reads the body of request rq: a JSON or
\* XML middleware always, a Form middleware when the request is a POST with a
\* form Content-Type.
FirstReadsBody(rq) ==
  \/ router.chain[1].src \in {JSON, XML}
  \/ router.chain[1].src = Form /\ rq.in.method = "POST" /\ rq.in.ctype = "form"

\* C26 as stated: a body-sourced middleware (JSON, XML or Form) consumes the
\* body, so when two of them are chained a second JSON or XML one ends in a
\* decode failure and the handler is never invoked.
C26_SecondReaderFails ==
  \A r \in ReqIds : SecondBodyReader(r) => EndsOnConsumedBody(req[r])

\* C26, amended: when the first of two chained body-sourced middlewares has
\* read the body (a JSON or XML middleware, or a Form middleware on a POST
\* with a form Content-Type), a second JSON or XML middleware ends in a decode
\* failure and the handler is never invoked, also when the body was a valid
\* document for both schemas.
C26_SecondReaderFailsAfterRead ==
  \A r \in ReqIds :
    (SecondBodyReader(r) /\ FirstReadsBody(req[r])) =>
      /\ req[r].bodyRead
      /\ EndsOnConsumedBody(req[r])

\* Two JSON middlewares of the same schema and a body that is a valid
\* document for it: the first published, the second failed on EOF.
C26_Witness ==
  \E r \in ReqIds :
    /\ router.chain = << Middleware("TestSchema", JSON), Middleware("TestSchema", JSON) >>
    /\ GoodInput(router.chain, 1, req[r].in)
    /\ req[r].pos = 2
    /\ req[r].pc = "DecodeFailed"
    /\ req[r].err = MkErr("decode", "EOF", "")
    /\ req[r].calls = [decoder |-> 2, validator |-> 1, policy |-> 1, handler |-> 0]

\* Middlewares i and j of the route were built from prototypes of one type
\* for one source that every middleware of a chain reads alike.
SameTypeAndSource(i, j) ==
  /\ router.chain[i].schema = router.chain[j].schema
  /\ router.chain[i].src = router.chain[j].src
  /\ router.chain[i].src \in {Params, Query}

\* Some request is being served.
InFlight == \E r \in DOMAIN req : req[r].pc # "Idle"

\* The instances of every request: equal for two middlewares of one type and
\* source, and zero in the fields the input leaves out.
TypeOnly ==
  \A r \in DOMAIN req :
    /\ \A i, j \in 1..Len(req[r].objs) :
         SameTypeAndSource(i, j) => req[r].objs[i] = req[r].objs[j]
    /\ \A i \in 1..Len(req[r].objs) : AbsentIsZero(req[r], i)

\* C27: the schema value passed to Validate supplies only its type: for two
\* middlewares built from prototypes of the same type with different field
\* values, the same request yields equal decoded instances; a field absent
\* from the input is zero in the decoded instance even when the prototype held
\* a non-zero value; and no step of a request changes a prototype.
C27_PrototypeGivesTypeOnly ==
  /\ []TypeOnly
  /\ [][(InFlight \/ InFlight') => router'.chain = router.chain]_vars

\* A request with id=1 and no follow_ids went through a Query middleware of
\* the zero prototype and one of the prototype {ID: 12, FollowIDs: [1]}: both
\* decoded {ID: 1, FollowIDs: none}, and the prototype is as it was built.
C27_Witness ==
  \E r \in ReqIds :
    /\ router.chain = << Middleware("TestSchema", Query),
                         ValidateWith("TestSchema", FilledPrototype, Query) >>
    /\ req[r].in.query = <<Pair("id", T1)>>
    /\ req[r].pc = "Done"
    /\ req[r].objs = << [ID |-> 1, FollowIDs |-> <<>>], [ID |-> 1, FollowIDs |-> <<>>] >>
    /\ router.chain[2].proto = [ID |-> 12, FollowIDs |-> <<1>>]

\* The pairs of the request's body, when it is a form.
BodyPairs(in) == IF in.body.fmt = "form" THEN in.body.segs ELSE <<>>

\* The body carries the pair k=v.
InBody(in, k, v) ==
  \E n \in 1..Len(BodyPairs(in)) :
    LET seg == BodyPairs(in)[n] IN ~seg.bad /\ seg.k = k /\ seg.v = v

\* The body carries a value for key k.
BodyHas(in, k) ==
  \E n \in 1..Len(BodyPairs(in)) : ~BodyPairs(in)[n].bad /\ BodyPairs(in)[n].k = k

\* C28: for the Form source the decoded instance is populated only from the
\* values of the request body: every value handed to the structural decoder is
\* a pair of the body, a field whose key the body does not carry is zero
\* whatever the URL query of the same request carries, and a request with an
\* empty body decodes to a zero-valued instance.
C28_FormFromBodyOnly ==
  [][\A r \in ReqIds :
       (DecodingFrom(r, Form) /\ req'[r] # req[r]) =>
         LET in == req[r].in
             st == req'[r].objs[req[r].pos]
             F == FieldsOf(router.chain[req[r].pos].schema)
             map == req'[r].handed
         IN /\ \A k \in DOMAIN map : \A j \in 1..Len(map[k]) : InBody(in, k, map[k][j])
            /\ \A h \in 1..Len(F) :
                 ~BodyHas(in, F[h].schema) => FieldValue(st, F[h].name) = ZeroOf(F[h].type)
            /\ BodyPairs(in) = <<>> => st = ZeroStruct]_vars

\* A POST with id=1 in the URL query and an empty form as its body, on the
\* Form route of TestSchema: nothing was handed to the decoder, the instance
\* is zero, and validation rejected it for the missing id.
C28_Witness ==
  \E r \in ReqIds :
    /\ router.chain = << Middleware("TestSchema", Form) >>
    /\ req[r].in.method = "POST"
    /\ req[r].in.query = <<Pair("id", T1)>>
    /\ req[r].in.body = FormBody(<<>>)
    /\ req[r].pc = "ValidationFailed"
    /\ req[r].handed = EmptyValues
    /\ req[r].objs = <<ZeroStruct>>
    /\ req[r].calls = [decoder |-> 1, validator |-> 1, policy |-> 1, handler |-> 0]

====
